---- MODULE Spec2Model ----
(***************************************************************************)
(* TaskMaster: the task store (src/src/core/storage.ts) and the task       *)
(* manager (src/src/core/task-manager.ts) as a state machine.              *)
(*                                                                         *)
(* A JavaScript string that is used as an identifier is a sequence of      *)
(* one-character strings (<<"1", ".", "2">> is "1.2"), so that split,       *)
(* parseInt and String are computed and not assumed.  Other strings        *)
(* (title, status, priority, ...) are TLA+ strings.  A timestamp is the    *)
(* number of clock ticks since the start.  An object is a function from    *)
(* its keys to its values; a key whose value is undefined is either        *)
(* missing or, for string-valued keys, holds Undefined.                    *)
(***************************************************************************)
EXTENDS Integers, Sequences, FiniteSets

VARIABLES
    file,         \* <<>>: tasks.json does not exist; <<store>>: its parsed content
    now,          \* the clock read by new Date()
    ret,          \* the last Manager call: its name, arguments and outcome
    lastCreated,  \* numeric id returned by the latest createTask since the
                  \* collection was last empty by initialize (0: none yet)
    caller,       \* the TaskManager instance that is running
    managers      \* per TaskManager instance: the call it is in and its locals,
                  \* and the outcome of the last call it completed

vars == <<file, now, ret, lastCreated, caller, managers>>

(***************************************************************************)
(* Bounds of the model.                                                    *)
(***************************************************************************)
MaxId == 3        \* createTask is not called once it would return a larger id
SmallMaxId == 2   \* the same, where the tasks vary in more than their ids
MaxSubtasks == 2  \* addSubtask is not called on a task with that many subtasks
MaxTime == 1      \* the clock stops ticking there
MaxManagers == 2  \* TaskManager instances on the project root
MaxTotal == 40    \* the largest number of tasks getStats counts

(***************************************************************************)
(* JavaScript values.                                                      *)
(***************************************************************************)
Undefined == "<undefined>"

VERSION == "1.0.0"

Digits == <<"0", "1", "2", "3", "4", "5", "6", "7", "8", "9">>

IsDigit(c) == \E i \in 1..10 : Digits[i] = c

DigitValue(c) == (CHOOSE i \in 1..10 : Digits[i] = c) - 1

\* String(n) for an integer n >= 0
RECURSIVE String(_)
String(n) ==
    IF n < 10 THEN <<Digits[n + 1]>>
    ELSE String(n \div 10) \o <<Digits[(n % 10) + 1]>>

\* the longest prefix of s made of decimal digits
RECURSIVE DigitPrefix(_)
DigitPrefix(s) ==
    IF s = <<>> \/ ~IsDigit(Head(s)) THEN <<>>
    ELSE <<Head(s)>> \o DigitPrefix(Tail(s))

RECURSIVE DigitsValue(_)
DigitsValue(s) ==
    IF s = <<>> THEN 0
    ELSE DigitsValue(SubSeq(s, 1, Len(s) - 1)) * 10 + DigitValue(s[Len(s)])

\* parseInt(s, 10) is NaN when s does not start with a digit
ParseIntIsNaN(s) == DigitPrefix(s) = <<>>

\* parseInt(s, 10) when it is a number: trailing non-digits are ignored
ParseInt(s) == DigitsValue(DigitPrefix(s))

\* parseInt(s, 10) || 0
ParseIntOrZero(s) == IF ParseIntIsNaN(s) THEN 0 ELSE ParseInt(s)

\* s.split('.'): every dot separates two parts
RECURSIVE Split(_)
Split(s) ==
    IF s = <<>> THEN << <<>> >>
    ELSE LET rest == Split(Tail(s))
         IN  IF Head(s) = "." THEN << <<>> >> \o rest
             ELSE << <<Head(s)>> \o rest[1] >> \o Tail(rest)

\* o.k, which is undefined when o has no key k
Get(o, k) == IF k \in DOMAIN o THEN o[k] ELSE Undefined

\* keys whose values are strings in this model, and so can hold Undefined
StringKeys == {"title", "description", "status", "priority", "details",
               "testStrategy", "projectName", "version"}

IsUndefined(o, k) ==
    \/ k \notin DOMAIN o
    \/ k \in StringKeys /\ o[k] = Undefined

\* o.k is undefined or the empty string: the falsy values of o.k || default
IsFalsy(o, k) == IsUndefined(o, k) \/ (k \in StringKeys /\ o[k] = "")

Max(S) == CHOOSE x \in S : \A y \in S : y <= x

Min(S) == CHOOSE x \in S : \A y \in S : x <= y

Range(s) == {s[i] : i \in 1..Len(s)}

\* items.findIndex((x) => x.id === id): the first match, 0 standing for -1
FindIndexById(items, id) ==
    IF \E i \in 1..Len(items) : items[i].id = id
    THEN Min({i \in 1..Len(items) : items[i].id = id})
    ELSE 0

\* dependencies.filter((d) => d !== taskId)
WithoutId(dependencies, taskId) ==
    LET Keep(d) == d # taskId IN SelectSeq(dependencies, Keep)

\* array.splice(index, 1)
RemoveAt(s, i) == SubSeq(s, 1, i - 1) \o SubSeq(s, i + 1, Len(s))

(***************************************************************************)
(* JavaScript numbers are IEEE 754 doubles: 53 significant bits, results   *)
(* rounded to nearest, ties to even.  A positive double is written here as *)
(* [bits |-> b, scale |-> f]: the bits of an integer, most significant     *)
(* first, and the number f of them that come after the binary point.      *)
(***************************************************************************)
Precision == 53

\* 2^n modulo d
RECURSIVE PowerOfTwoMod(_, _)
PowerOfTwoMod(n, d) ==
    IF n = 0 THEN 1 % d
    ELSE IF n % 2 = 0
         THEN LET half == PowerOfTwoMod(n \div 2, d) IN (half * half) % d
         ELSE (2 * PowerOfTwoMod(n - 1, d)) % d

\* what is left of r after n bits of the binary expansion of r / d, 0 <= r < d
QuotientRest(r, d, n) == (r * PowerOfTwoMod(n, d)) % d

\* the first n bits of the binary expansion of r / d, for 0 <= r < d
QuotientBits(r, d, n) ==
    [i \in 1..n |-> IF 2 * QuotientRest(r, d, i - 1) >= d THEN 1 ELSE 0]

\* the zeros before the first one in the binary expansion of r / d, 0 < r < d
RECURSIVE LeadingZeros(_, _)
LeadingZeros(r, d) == IF 2 * r >= d THEN 0 ELSE 1 + LeadingZeros(2 * r, d)

\* bits + 1: the last zero becomes a one and the ones after it zeros
Increment(bits) ==
    LET zeros == {i \in 1..Len(bits) : bits[i] = 0}
        last == IF zeros = {} THEN 0 ELSE Max(zeros)
    IN  IF last = 0 THEN <<1>> \o [i \in 1..Len(bits) |-> 0]
        ELSE [i \in 1..Len(bits) |-> IF i < last THEN bits[i] ELSE IF i = last THEN 1 ELSE 0]

\* bits without its zeros in front
Normalized(bits) ==
    LET ones == {i \in 1..Len(bits) : bits[i] = 1}
    IN  IF ones = {} THEN <<>> ELSE SubSeq(bits, Min(ones), Len(bits))

\* round to nearest, ties to even: kept are the bits to keep, guard the first
\* bit dropped, sticky whether anything nonzero follows it
RoundToEven(kept, guard, sticky) ==
    IF guard = 1 /\ (sticky \/ kept[Len(kept)] = 1) THEN Increment(kept) ELSE kept

\* the double nearest to the number [bits, scale]
RoundToDouble(x) ==
    LET bits == Normalized(x.bits)
        drop == Len(bits) - Precision
        rest == SubSeq(bits, Precision + 2, Len(bits))
    IN  IF drop <= 0 THEN [bits |-> bits, scale |-> x.scale]
        ELSE [bits |-> RoundToEven(SubSeq(bits, 1, Precision), bits[Precision + 1],
                                   \E i \in 1..Len(rest) : rest[i] = 1),
              scale |-> x.scale - drop]

\* the double a / b for integers 0 < a <= b: the expansion of a / (2 * b),
\* which is below 1, with one bit less after the point
DivideDoubles(a, b) ==
    LET zeros == LeadingZeros(a, 2 * b)
        bits == QuotientBits(a, 2 * b, zeros + Precision + 1)
        rest == QuotientRest(a, 2 * b, zeros + Precision + 1)
    IN  [bits |-> RoundToEven(SubSeq(bits, zeros + 1, zeros + Precision),
                              bits[zeros + Precision + 1], rest # 0),
         scale |-> zeros + Precision - 1]

\* the integer whose bits are bits
RECURSIVE BitsValue(_)
BitsValue(bits) ==
    IF bits = <<>> THEN 0
    ELSE 2 * BitsValue(SubSeq(bits, 1, Len(bits) - 1)) + bits[Len(bits)]

\* the n lowest bits of the integer v
IntegerBits(v, n) == [i \in 1..n |-> (v \div (2 ^ (n - i))) % 2]

\* arithmetic on bits goes by chunks of this many bits
ChunkBits == 12

\* the bits of k times the integer whose bits are bits, plus carry
RECURSIVE TimesSmall(_, _, _)
TimesSmall(bits, k, carry) ==
    IF bits = <<>> THEN IntegerBits(carry, ChunkBits)
    ELSE LET n == Min({ChunkBits, Len(bits)})
             v == BitsValue(SubSeq(bits, Len(bits) - n + 1, Len(bits))) * k + carry
         IN  TimesSmall(SubSeq(bits, 1, Len(bits) - n), k, v \div (2 ^ n))
                 \o IntegerBits(v % (2 ^ n), n)

\* the double x * k for a double x and a small integer k
MultiplyDouble(x, k) ==
    RoundToDouble([bits |-> TimesSmall(x.bits, k, 0), scale |-> x.scale])

\* Math.round(x) for a positive double x below 2^31 with scale >= 1: the
\* integer part, plus one when the fraction is a half or more
MathRound(x) ==
    LET whole == Len(x.bits) - x.scale
    IN  (IF whole <= 0 THEN 0 ELSE BitsValue(SubSeq(x.bits, 1, whole)))
        + (IF whole >= 0 THEN x.bits[whole + 1] ELSE 0)

\* Math.round((done / total) * 100) for 0 <= done <= total, total > 0
roundedPercentage(done, total) ==
    IF done = 0 THEN 0
    ELSE MathRound(MultiplyDouble(DivideDoubles(done, total), 100))

(***************************************************************************)
(* JSON.stringify followed by JSON.parse: a key whose value is undefined   *)
(* is not written, so it is missing from the object read back.             *)
(***************************************************************************)
DefinedKeys(o) == {k \in DOMAIN o : ~IsUndefined(o, k)}

JsonObject(o) == [k \in DefinedKeys(o) |-> o[k]]

JsonSubtasks(subtasks) == [i \in 1..Len(subtasks) |-> JsonObject(subtasks[i])]

JsonTask(t) ==
    LET o == JsonObject(t)
    IN  [k \in DOMAIN o |->
            IF k = "subtasks" THEN JsonSubtasks(o[k]) ELSE o[k]]

JsonTasks(tasks) == [i \in 1..Len(tasks) |-> JsonTask(tasks[i])]

JsonStore(store) ==
    LET o == JsonObject(store)
    IN  [k \in DOMAIN o |-> IF k = "tasks" THEN JsonTasks(o[k]) ELSE o[k]]

(***************************************************************************)
(* TaskStorage                                                             *)
(***************************************************************************)
isInitialized == file # <<>>

\* load() of an initialized project
load == file[1]

\* getTasks() of an initialized project
getTasks == load.tasks

\* save that sets lastUpdated only when the tasks differ from the stored ones
save_IfChanged(store, t) ==
    << JsonStore([store EXCEPT !.lastUpdated =
                      IF isInitialized /\ JsonTasks(store.tasks) = getTasks THEN @ ELSE t]) >>

\* save that stamps every task it writes
save_Stamping(store, t) ==
    LET Stamped(task) == [task EXCEPT !.updatedAt = t]
    IN  << JsonStore([store EXCEPT !.lastUpdated = t,
                                   !.tasks = [i \in 1..Len(@) |-> Stamped(@[i])]]) >>

\* the file after save(store), called at time t
save(store, t) == << JsonStore([store EXCEPT !.lastUpdated = t]) >>

\* saveTasks that keeps the stored tasks that are not among the new ones
saveTasks_Merge(tasks, t) ==
    LET Lost(task) == \A i \in 1..Len(tasks) : tasks[i] # task
    IN  save([load EXCEPT !.tasks = SelectSeq(@, Lost) \o tasks], t)

\* the file after saveTasks(tasks), called at time t
saveTasks(tasks, t) == save([load EXCEPT !.tasks = tasks], t)

\* NewStore that takes over the tasks of an existing document
NewStore_Keep(projectName, t) ==
    [version |-> VERSION,
     projectName |-> IF projectName = Undefined \/ projectName = ""
                     THEN "project" ELSE projectName,
     tasks |-> IF isInitialized THEN getTasks ELSE <<>>,
     lastUpdated |-> t]

\* the store built by initialize(projectName) at time t; path.basename of the
\* project root is "project"
NewStore(projectName, t) ==
    [version |-> VERSION,
     projectName |-> IF projectName = Undefined \/ projectName = ""
                     THEN "project" ELSE projectName,
     tasks |-> <<>>,
     lastUpdated |-> t]

(***************************************************************************)
(* TaskManager: the pure parts                                             *)
(***************************************************************************)
\* generateTaskId counting the tasks instead of taking the largest id
generateTaskId_ByLength(tasks) == String(Len(tasks) + 1)

\* generateTaskId with Math.min in the place of Math.max
generateTaskId_Min(tasks) ==
    IF Len(tasks) = 0 THEN <<"1">>
    ELSE String(Min({ParseIntOrZero(tasks[i].id) : i \in 1..Len(tasks)}) + 1)

generateTaskId(tasks) ==
    IF Len(tasks) = 0 THEN <<"1">>
    ELSE String(Max({ParseIntOrZero(tasks[i].id) : i \in 1..Len(tasks)}) + 1)

\* generateSubtaskId that gives every subtask the id "1"
generateSubtaskId_First(subtasks) == <<"1">>

generateSubtaskId(subtasks) ==
    IF Len(subtasks) = 0 THEN <<"1">>
    ELSE String(Max({ParseIntOrZero(subtasks[i].id) : i \in 1..Len(subtasks)}) + 1)

\* priorityOrder with the ranks of high and low exchanged
priorityOrder_Reversed(priority) ==
    CASE priority = "high" -> 2
      [] priority = "medium" -> 1
      [] priority = "low" -> 0
      [] OTHER -> 1

\* priorityOrder with ?? 3 in the place of ?? 1
priorityOrder_UnknownLast(priority) ==
    CASE priority = "high" -> 0
      [] priority = "medium" -> 1
      [] priority = "low" -> 2
      [] OTHER -> 3

\* priorityOrder[priority] ?? 1
priorityOrder(priority) ==
    CASE priority = "high" -> 0
      [] priority = "medium" -> 1
      [] priority = "low" -> 2
      [] OTHER -> 1

\* the comparator of getNextTask's sort; a NaN result counts as 0
comparePriority(a, b) ==
    LET aPriority == priorityOrder(Get(a, "priority"))
        bPriority == priorityOrder(Get(b, "priority"))
    IN  IF aPriority # bPriority THEN aPriority - bPriority
        ELSE IF ParseIntIsNaN(a.id) \/ ParseIntIsNaN(b.id) THEN 0
        ELSE ParseInt(a.id) - ParseInt(b.id)

\* Array.prototype.sort is stable: x goes before the first element it precedes
RECURSIVE InsertSorted(_, _)
InsertSorted(x, s) ==
    IF s = <<>> THEN <<x>>
    ELSE IF comparePriority(x, Head(s)) < 0 THEN <<x>> \o s
         ELSE <<Head(s)>> \o InsertSorted(x, Tail(s))

\* availableTasks.sort(comparator)
RECURSIVE Sort(_)
Sort(s) ==
    IF s = <<>> THEN <<>>
    ELSE InsertSorted(s[Len(s)], Sort(SubSeq(s, 1, Len(s) - 1)))

\* the ids of the tasks whose status is done
doneTasks(tasks) == {tasks[i].id : i \in {j \in 1..Len(tasks) : Get(tasks[j], "status") = "done"}}

\* isAvailable without deferred among the excluded statuses
\* isAvailable that does not look at the dependencies
isAvailable_Unordered(tasks, t) ==
    Get(t, "status") \notin {"done", "blocked", "deferred"}

\* isAvailable that passes over the dependencies that are no task's id
isAvailable_Existing(tasks, t) ==
    /\ Get(t, "status") \notin {"done", "blocked", "deferred"}
    /\ \A i \in 1..Len(t.dependencies) :
           \/ t.dependencies[i] \in doneTasks(tasks)
           \/ \A j \in 1..Len(tasks) : tasks[j].id # t.dependencies[i]

isAvailable_Deferred(tasks, t) ==
    /\ Get(t, "status") \notin {"done", "blocked"}
    /\ \A i \in 1..Len(t.dependencies) : t.dependencies[i] \in doneTasks(tasks)

isAvailable(tasks, t) ==
    /\ Get(t, "status") \notin {"done", "blocked", "deferred"}
    /\ \A i \in 1..Len(t.dependencies) : t.dependencies[i] \in doneTasks(tasks)

availableTasks(tasks) == LET Keep(t) == isAvailable(tasks, t) IN SelectSeq(tasks, Keep)

\* availableTasks.find((t) => t.status === 'in-progress'): its index, 0 if none
FindInProgress(available) ==
    LET found == {i \in 1..Len(available) : Get(available[i], "status") = "in-progress"}
    IN  IF found = {} THEN 0 ELSE Min(found)

\* getNextTask that considers the pending tasks only
getNextTask_PendingOnly(tasks) ==
    LET Pending(t) == Get(t, "status") = "pending"
        available == SelectSeq(availableTasks(tasks), Pending)
    IN  IF Len(available) = 0 THEN <<>> ELSE <<Sort(available)[1]>>

\* getNextTask without the in-progress shortcut
getNextTask_PriorityOnly(tasks) ==
    LET available == availableTasks(tasks)
    IN  IF Len(available) = 0 THEN <<>> ELSE <<Sort(available)[1]>>

\* getNextTask() on these tasks: <<>> is null, <<t>> is the task t
getNextTask(tasks) ==
    LET available == availableTasks(tasks)
        inProgress == FindInProgress(available)
    IN  IF Len(available) = 0 THEN <<>>
        ELSE IF inProgress # 0 THEN <<available[inProgress]>>
        ELSE <<Sort(available)[1]>>

\* { ...input, ...task, updatedAt: t }: the fields of the task win
mergeTask_TaskFirst(task, input, t) ==
    [k \in (DOMAIN task) \cup (DOMAIN input) \cup {"updatedAt"} |->
        IF k = "updatedAt" THEN t
        ELSE IF k \in DOMAIN task THEN task[k]
        ELSE input[k]]

\* { ...task, ...input, updatedAt: t }
mergeTask(task, input, t) ==
    [k \in (DOMAIN task) \cup (DOMAIN input) \cup {"updatedAt"} |->
        IF k = "updatedAt" THEN t
        ELSE IF k \in DOMAIN input THEN input[k]
        ELSE task[k]]

\* newTask with low as the priority of a task created without one
newTask_Low(tasks, input, t) ==
    [id |-> generateTaskId(tasks),
     title |-> Get(input, "title"),
     description |-> IF IsFalsy(input, "description") THEN "" ELSE input.description,
     status |-> "pending",
     priority |-> IF IsFalsy(input, "priority") THEN "low" ELSE input.priority,
     dependencies |-> IF "dependencies" \in DOMAIN input THEN input.dependencies ELSE <<>>,
     subtasks |-> <<>>,
     details |-> Get(input, "details"),
     testStrategy |-> Get(input, "testStrategy"),
     createdAt |-> t,
     updatedAt |-> t]

\* the task object createTask builds at time t
newTask(tasks, input, t) ==
    [id |-> generateTaskId(tasks),
     title |-> Get(input, "title"),
     description |-> IF IsFalsy(input, "description") THEN "" ELSE input.description,
     status |-> "pending",
     priority |-> IF IsFalsy(input, "priority") THEN "medium" ELSE input.priority,
     dependencies |-> IF "dependencies" \in DOMAIN input THEN input.dependencies ELSE <<>>,
     subtasks |-> <<>>,
     details |-> Get(input, "details"),
     testStrategy |-> Get(input, "testStrategy"),
     createdAt |-> t,
     updatedAt |-> t]

\* the subtask object addSubtask builds at time t
newSubtask(subtasks, input, t) ==
    [id |-> generateSubtaskId(subtasks),
     title |-> Get(input, "title"),
     description |-> Get(input, "description"),
     status |-> "pending",
     createdAt |-> t,
     updatedAt |-> t]

\* removeDependency with a loop that starts at the second task
removeDependency_FromSecond(tasks, taskId) ==
    [i \in 1..Len(tasks) |->
        IF i = 1 THEN tasks[i]
        ELSE [tasks[i] EXCEPT !.dependencies = WithoutId(@, taskId)]]

\* deleteTask without the loop over the remaining tasks
removeDependency_Kept(tasks, taskId) == tasks

\* deleteTask's loop over the remaining tasks
removeDependency(tasks, taskId) ==
    [i \in 1..Len(tasks) |->
        [tasks[i] EXCEPT !.dependencies = WithoutId(@, taskId)]]

\* filter.status is a string or an array of strings: [isArray, value]
statusesOf(status) == IF status.isArray THEN status.value ELSE <<status.value>>

\* filterTasks that keeps the tasks passing either filter when both are given
filterTasks_Either(tasks, filter) ==
    LET hasStatus == /\ "status" \in DOMAIN filter
                     /\ (filter.status.isArray \/ filter.status.value \notin {"", Undefined})
        hasPriority == ~IsFalsy(filter, "priority")
        ByStatus(t) == hasStatus /\ Get(t, "status") \in Range(statusesOf(filter.status))
        ByPriority(t) == hasPriority /\ Get(t, "priority") = filter.priority
        Either(t) == ByStatus(t) \/ ByPriority(t)
    IN  IF hasStatus \/ hasPriority THEN SelectSeq(tasks, Either) ELSE tasks

\* getTasks(filter) on these tasks; no filter is the empty record
filterTasks(tasks, filter) ==
    LET hasStatus == /\ "status" \in DOMAIN filter
                     /\ (filter.status.isArray \/ filter.status.value \notin {"", Undefined})
        ByStatus(t) == Get(t, "status") \in Range(statusesOf(filter.status))
        kept == IF hasStatus THEN SelectSeq(tasks, ByStatus) ELSE tasks
        ByPriority(t) == Get(t, "priority") = filter.priority
    IN  IF IsFalsy(filter, "priority") THEN kept ELSE SelectSeq(kept, ByPriority)

\* the part of s before its first dot (all of s when it has none)
BeforeDot(s) ==
    LET dots == {i \in 1..Len(s) : s[i] = "."}
    IN  IF dots = {} THEN s ELSE SubSeq(s, 1, Min(dots) - 1)

\* the part of s after its first dot
AfterDot(s) ==
    LET dots == {i \in 1..Len(s) : s[i] = "."}
    IN  SubSeq(s, Min(dots) + 1, Len(s))

\* getTask that splits the id at its first dot only
getTask_FirstDot(tasks, taskId) ==
    LET index == FindIndexById(tasks, BeforeDot(taskId))
        subtasks == tasks[index].subtasks
        subtaskIndex == FindIndexById(subtasks, AfterDot(taskId))
    IN  IF index = 0 THEN <<>>
        ELSE IF BeforeDot(taskId) = taskId THEN <<tasks[index]>>
        ELSE IF subtaskIndex = 0 THEN <<>>
        ELSE <<subtasks[subtaskIndex]>>

\* getTask(taskId) on these tasks: <<>> is null
getTask(tasks, taskId) ==
    LET parts == Split(taskId)
        index == FindIndexById(tasks, parts[1])
        subtasks == tasks[index].subtasks
        subtaskIndex == FindIndexById(subtasks, parts[2])
    IN  IF index = 0 THEN <<>>
        ELSE IF Len(parts) = 1 THEN <<tasks[index]>>
        ELSE IF subtaskIndex = 0 THEN <<>>
        ELSE <<subtasks[subtaskIndex]>>

\* getParentTask(taskId) on these tasks: <<>> is null
getParentTask(tasks, taskId) ==
    LET index == FindIndexById(tasks, Split(taskId)[1])
    IN  IF index = 0 THEN <<>> ELSE <<tasks[index]>>

\* a count of the tasks and of their subtasks with this status
countStatus_Deep(tasks, status) ==
    Cardinality({i \in 1..Len(tasks) : Get(tasks[i], "status") = status})
    + Cardinality({p \in (1..Len(tasks)) \X (1..MaxSubtasks + 1) :
                      /\ p[2] <= Len(tasks[p[1]].subtasks)
                      /\ tasks[p[1]].subtasks[p[2]].status = status})

\* tasks.filter((t) => t.status === status).length
countStatus(tasks, status) ==
    Cardinality({i \in 1..Len(tasks) : Get(tasks[i], "status") = status})

\* getStats that answers from the running instance's previous getStats
getStats_Cached(tasks) ==
    IF managers[caller].done.op = "getStats" /\ ~managers[caller].done.threw
    THEN managers[caller].done.result
    ELSE [total |-> Len(tasks),
          pending |-> countStatus(tasks, "pending"),
          inProgress |-> countStatus(tasks, "in-progress"),
          done |-> countStatus(tasks, "done"),
          blocked |-> countStatus(tasks, "blocked"),
          deferred |-> countStatus(tasks, "deferred"),
          completionPercentage |->
              IF Len(tasks) > 0 THEN roundedPercentage(countStatus(tasks, "done"), Len(tasks))
              ELSE 0]

\* getStats() on these tasks
getStats(tasks) ==
    LET total == Len(tasks)
    IN  [total |-> total,
         pending |-> countStatus(tasks, "pending"),
         inProgress |-> countStatus(tasks, "in-progress"),
         done |-> countStatus(tasks, "done"),
         blocked |-> countStatus(tasks, "blocked"),
         deferred |-> countStatus(tasks, "deferred"),
         completionPercentage |->
             IF total > 0 THEN roundedPercentage(countStatus(tasks, "done"), total)
             ELSE 0]

(***************************************************************************)
(* The calls.  Every Manager operation starts with storage.getTasks(),     *)
(* which throws when tasks.json does not exist.  A write happens at the    *)
(* time of a second clock reading, which may be one tick later.            *)
(***************************************************************************)
Null == <<>>

Returned(op, args, result) ==
    [op |-> op, args |-> args, threw |-> FALSE, result |-> result]

Threw(op, args) ==
    [op |-> op, args |-> args, threw |-> TRUE, result |-> Null]

\* the readings of the clock that can follow the reading now
LaterReadings == {now, now + 1}

\* the later readings within the model's horizon
Readings == {t \in LaterReadings : t <= MaxTime}

\* the TaskManager instances
Managers == 1..MaxManagers

\* an instance between two calls: it holds nothing but the project root, and
\* done is the outcome of its last call
Idle(done) == [pc |-> "idle", done |-> done]

\* the running instance is between two calls
CallerIdle == managers[caller].pc = "idle"

\* the running instance completes a call with this outcome
Complete(outcome) ==
    /\ ret' = outcome
    /\ managers' = [managers EXCEPT ![caller] = Idle(outcome)]
    /\ UNCHANGED caller

\* Throw that returns null in the place of raising
Throw_Null(op, args) ==
    /\ ~isInitialized
    /\ Complete(Returned(op, args, Null))
    /\ UNCHANGED <<file, now, lastCreated>>

Throw(op, args) ==
    /\ ~isInitialized
    /\ Complete(Threw(op, args))
    /\ UNCHANGED <<file, now, lastCreated>>

\* Return after a saveTasks of the tasks as they were loaded
Return_Saving(op, args, result) ==
    /\ Complete(Returned(op, args, result))
    /\ file' = IF isInitialized THEN saveTasks(getTasks, now) ELSE file
    /\ UNCHANGED <<now, lastCreated>>

\* a call that returns result and writes nothing
Return(op, args, result) ==
    /\ Complete(Returned(op, args, result))
    /\ UNCHANGED <<file, now, lastCreated>>

\* a call that writes tasks at the clock reading t and returns result
SaveAndReturn(op, args, tasks, t, result) ==
    /\ t \in LaterReadings
    /\ file' = saveTasks(tasks, t)
    /\ now' = t
    /\ Complete(Returned(op, args, result))

Initialize(projectName, t) ==
    /\ t \in LaterReadings
    /\ file' = save(NewStore(projectName, now), t)
    /\ now' = t
    /\ Complete(Returned("initialize", <<projectName>>, <<NewStore(projectName, now)>>))
    /\ lastCreated' = 0

CreateTask(input, t) ==
    \/ Throw("createTask", <<input>>)
    \/ /\ isInitialized
       /\ LET task == newTask(getTasks, input, now)
          IN  /\ SaveAndReturn("createTask", <<input>>, Append(getTasks, task), t, <<task>>)
              /\ lastCreated' = ParseIntOrZero(task.id)

UpdateTask(taskId, input, t) ==
    \/ Throw("updateTask", <<taskId, input>>)
    \/ /\ isInitialized
       /\ LET tasks == getTasks
              index == FindIndexById(tasks, taskId)
              updatedTask == mergeTask(tasks[index], input, now)
          IN  IF index = 0
              THEN Return("updateTask", <<taskId, input>>, Null)
              ELSE /\ SaveAndReturn("updateTask", <<taskId, input>>,
                                    [tasks EXCEPT ![index] = updatedTask], t,
                                    <<updatedTask>>)
                   /\ UNCHANGED lastCreated

DeleteTask(taskId, t) ==
    \/ Throw("deleteTask", <<taskId>>)
    \/ /\ isInitialized
       /\ LET tasks == getTasks
              index == FindIndexById(tasks, taskId)
          IN  IF index = 0
              THEN Return("deleteTask", <<taskId>>, FALSE)
              ELSE /\ SaveAndReturn("deleteTask", <<taskId>>,
                                    removeDependency(RemoveAt(tasks, index), taskId), t,
                                    TRUE)
                   /\ UNCHANGED lastCreated

\* withStatus that leaves the status of a done item
withStatus_Terminal(o, status, t) ==
    [k \in (DOMAIN o) \cup {"status", "updatedAt"} |->
        IF k = "status" THEN (IF Get(o, "status") = "done" THEN "done" ELSE status)
        ELSE IF k = "updatedAt" THEN t
        ELSE o[k]]

\* withStatus that stamps updatedAt and leaves the status
withStatus_StampOnly(o, status, t) ==
    [k \in (DOMAIN o) \cup {"updatedAt"} |-> IF k = "updatedAt" THEN t ELSE o[k]]

\* o with o.status = status and o.updatedAt = t
withStatus(o, status, t) ==
    [k \in (DOMAIN o) \cup {"status", "updatedAt"} |->
        IF k = "status" THEN status
        ELSE IF k = "updatedAt" THEN t
        ELSE o[k]]

\* setSubtaskStatus that sets the parent's status too
setSubtaskStatus_Parent(task, subtaskIndex, status, t) ==
    [task EXCEPT !.subtasks[subtaskIndex] = withStatus(@, status, t),
                 !.status = status,
                 !.updatedAt = t]

\* setSubtaskStatus that leaves the parent's updatedAt
setSubtaskStatus_Unstamped(task, subtaskIndex, status, t) ==
    [task EXCEPT !.subtasks[subtaskIndex] = withStatus(@, status, t)]

\* the parent task after setStatus reached its subtask at subtaskIndex
setSubtaskStatus(task, subtaskIndex, status, t) ==
    [task EXCEPT !.subtasks[subtaskIndex] = withStatus(@, status, t),
                 !.updatedAt = t]

SetStatus(taskId, status, t) ==
    \/ Throw("setStatus", <<taskId, status>>)
    \/ /\ isInitialized
       /\ LET tasks == getTasks
              parts == Split(taskId)
              taskIndex == FindIndexById(tasks, parts[1])
              subtasks == tasks[taskIndex].subtasks
              subtaskIndex == FindIndexById(subtasks, parts[2])
              subtask == withStatus(subtasks[subtaskIndex], status, now)
          IN  IF taskIndex = 0
              THEN Return("setStatus", <<taskId, status>>, Null)
              ELSE IF Len(parts) = 1
              THEN /\ SaveAndReturn("setStatus", <<taskId, status>>,
                                    [tasks EXCEPT ![taskIndex] = withStatus(@, status, now)], t,
                                    <<withStatus(tasks[taskIndex], status, now)>>)
                   /\ UNCHANGED lastCreated
              ELSE IF subtaskIndex = 0
              THEN Return("setStatus", <<taskId, status>>, Null)
              ELSE /\ SaveAndReturn("setStatus", <<taskId, status>>,
                                    [tasks EXCEPT ![taskIndex] =
                                        setSubtaskStatus(@, subtaskIndex, status, now)], t,
                                    <<subtask>>)
                   /\ UNCHANGED lastCreated

AddSubtask(taskId, input, t) ==
    \/ Throw("addSubtask", <<taskId, input>>)
    \/ /\ isInitialized
       /\ LET tasks == getTasks
              taskIndex == FindIndexById(tasks, taskId)
              subtask == newSubtask(tasks[taskIndex].subtasks, input, now)
          IN  IF taskIndex = 0
              THEN Return("addSubtask", <<taskId, input>>, Null)
              ELSE /\ SaveAndReturn("addSubtask", <<taskId, input>>,
                                    [tasks EXCEPT ![taskIndex] =
                                        [@ EXCEPT !.subtasks = Append(@, subtask),
                                                  !.updatedAt = now]], t,
                                    <<subtask>>)
                   /\ UNCHANGED lastCreated

\* getNextTask that sorts the loaded tasks themselves and writes them back
GetNextTask_InPlace ==
    \/ Throw("getNextTask", <<>>)
    \/ /\ isInitialized
       /\ SaveAndReturn("getNextTask", <<>>, Sort(getTasks), now, getNextTask(getTasks))
       /\ UNCHANGED lastCreated

GetNextTask ==
    \/ Throw("getNextTask", <<>>)
    \/ /\ isInitialized
       /\ Return("getNextTask", <<>>, getNextTask(getTasks))

IsInitialized == Return("isInitialized", <<>>, isInitialized)

GetTasks(filter) ==
    \/ Throw("getTasks", <<filter>>)
    \/ /\ isInitialized
       /\ Return("getTasks", <<filter>>, filterTasks(getTasks, filter))

GetTask(taskId) ==
    \/ Throw("getTask", <<taskId>>)
    \/ /\ isInitialized
       /\ Return("getTask", <<taskId>>, getTask(getTasks, taskId))

GetParentTask(taskId) ==
    \/ Throw("getParentTask", <<taskId>>)
    \/ /\ isInitialized
       /\ Return("getParentTask", <<taskId>>, getParentTask(getTasks, taskId))

GetStats ==
    \/ Throw("getStats", <<>>)
    \/ /\ isInitialized
       /\ Return("getStats", <<>>, getStats(getTasks))

\* TaskStorage.saveTasks(tasks), called on the storage at the clock reading t
StorageSaveTasks(tasks, t) ==
    \/ Throw("storage.saveTasks", <<tasks>>)
    \/ /\ isInitialized
       /\ SaveAndReturn("storage.saveTasks", <<tasks>>, tasks, t, Null)
       /\ UNCHANGED lastCreated

\* TaskStorage.getTasks(), called on the storage
StorageGetTasks ==
    \/ Throw("storage.getTasks", <<>>)
    \/ /\ isInitialized
       /\ Return("storage.getTasks", <<>>, getTasks)

(***************************************************************************)
(* The MCP tools (src/src/mcp/tools.ts).  A tool makes a TaskManager on    *)
(* the project root, checks isInitialized and calls the manager; what it   *)
(* returns is a text, of which the model keeps which text it is.           *)
(***************************************************************************)
AlreadyInitialized == "is already initialized"

InitializedSuccessfully == "initialized successfully"

NotInitialized == "is not initialized"

\* rtaskmaster_init that initializes whether a document exists or not
InitTool_Always(projectName, t) ==
    /\ t \in LaterReadings
    /\ file' = save(NewStore(projectName, now), t)
    /\ now' = t
    /\ Complete(Returned("rtaskmaster_init", <<projectName>>, InitializedSuccessfully))
    /\ lastCreated' = 0

\* the rtaskmaster_init tool
InitTool(projectName, t) ==
    \/ /\ isInitialized
       /\ Return("rtaskmaster_init", <<projectName>>, AlreadyInitialized)
    \/ /\ ~isInitialized
       /\ t \in LaterReadings
       /\ file' = save(NewStore(projectName, now), t)
       /\ now' = t
       /\ Complete(Returned("rtaskmaster_init", <<projectName>>, InitializedSuccessfully))
       /\ lastCreated' = 0

\* the rtaskmaster_create_task tool
CreateTaskTool(args, t) ==
    \/ /\ ~isInitialized
       /\ Return("rtaskmaster_create_task", <<args>>, NotInitialized)
    \/ /\ isInitialized
       /\ LET task == newTask(getTasks, args, now)
          IN  /\ SaveAndReturn("rtaskmaster_create_task", <<args>>,
                               Append(getTasks, task), t, "Task created")
              /\ lastCreated' = ParseIntOrZero(task.id)

\* the rtaskmaster_delete_task tool
DeleteTaskTool(taskId, t) ==
    \/ /\ ~isInitialized
       /\ Return("rtaskmaster_delete_task", <<taskId>>, NotInitialized)
    \/ /\ isInitialized
       /\ LET tasks == getTasks
              index == FindIndexById(tasks, taskId)
          IN  IF index = 0
              THEN Return("rtaskmaster_delete_task", <<taskId>>, "not found")
              ELSE /\ SaveAndReturn("rtaskmaster_delete_task", <<taskId>>,
                                    removeDependency(RemoveAt(tasks, index), taskId), t,
                                    "deleted")
                   /\ UNCHANGED lastCreated

\* another TaskManager instance, which is in no call, is the one that runs
Switch(m) ==
    /\ m # caller
    /\ managers[m].pc = "idle"
    /\ caller' = m
    /\ UNCHANGED <<file, now, ret, lastCreated, managers>>

\* time passes between two calls
Tick ==
    /\ now < MaxTime
    /\ now' = now + 1
    /\ UNCHANGED <<file, ret, lastCreated, caller, managers>>

\* a project directory without .taskmaster/tasks.json, and no call made yet
Init ==
    /\ file = <<>>
    /\ now = 0
    /\ ret = Returned("new", <<>>, Null)
    /\ lastCreated = 0
    /\ caller = 1
    /\ managers = [m \in Managers |-> Idle(Returned("new", <<>>, Null))]

(***************************************************************************)
(* Specifications.  The calls are the ones above; a specification chooses  *)
(* the arguments the callers pass and where the model stops.               *)
(***************************************************************************)
TaskStatuses == {"pending", "in-progress", "done", "blocked", "deferred"}

\* the ids "1" .. String(n)
Ids(n) == {String(i) : i \in 1..n}

\* createTask would return an id of at most n
CanCreate(n) == isInitialized => ParseIntOrZero(generateTaskId(getTasks)) <= n

\* the task taskId, if there is one, has fewer than n subtasks
CanAddSubtask(taskId, n) ==
    isInitialized =>
        \A i \in 1..Len(getTasks) :
            getTasks[i].id = taskId => Len(getTasks[i].subtasks) < n

\* the arguments with which the model still lets createTask be called
Creatable(inputs, n) == {input \in inputs : CanCreate(n)}

\* the tasks that can get one more subtask in the model
Extensible(taskIds, n) == {taskId \in taskIds : CanAddSubtask(taskId, n)}

(***************************************************************************)
(* Spec: any sequential run of the five mutating calls, with arguments of  *)
(* the declared input types.                                               *)
(***************************************************************************)
CreateInputs ==
    {[title |-> "A"],
     [title |-> "B", dependencies |-> << <<"1">> >>]}

UpdateInputs == {[dependencies |-> << <<"2">> >>]}

SubtaskInputs == {[title |-> "S"]}

\* the dotted id of subtask m of task n
Dotted(n, m) == String(n) \o <<".">> \o String(m)

DottedIds(n, m) == {Dotted(i, j) : i \in 1..n, j \in 1..m}

Next ==
    \/ Initialize(Undefined, now)
    \/ \E input \in Creatable(CreateInputs, SmallMaxId) : CreateTask(input, now)
    \/ \E taskId \in Ids(SmallMaxId), input \in UpdateInputs : UpdateTask(taskId, input, now)
    \/ \E taskId \in Ids(SmallMaxId) : DeleteTask(taskId, now)
    \/ \E taskId \in Ids(SmallMaxId) \cup DottedIds(1, MaxSubtasks) :
          SetStatus(taskId, "in-progress", now)
    \/ \E taskId \in Extensible(Ids(1), MaxSubtasks), input \in SubtaskInputs :
          AddSubtask(taskId, input, now)

Spec == Init /\ [][Next]_vars

\* the numeric ids of the stored tasks, in storage order
StoredIds == [i \in 1..Len(getTasks) |-> ParseIntOrZero(getTasks[i].id)]

\* C2: no two tasks of the stored document have the same id.
C2_Theorem ==
    isInitialized =>
        \A i, j \in 1..Len(getTasks) : i # j => getTasks[i].id # getTasks[j].id

\* all five calls have acted: task "1" was created with a dependency, updated
\* to depend on "2", given a subtask and set in-progress; task "2" was deleted,
\* which emptied the dependencies of "1"; createTask then returned "2" again
C2_Witness ==
    /\ ret.op = "createTask" /\ ~ret.threw
    /\ StoredIds = <<1, 2>>
    /\ getTasks[1].title = "B" /\ getTasks[1].dependencies = <<>>
    /\ getTasks[1].status = "in-progress"
    /\ Len(getTasks[1].subtasks) = 1

(***************************************************************************)
(* SpecIds: createTask and deleteTask on one collection.                   *)
(***************************************************************************)
IdsCreateInputs ==
    {[title |-> "A"],
     [title |-> "B", dependencies |-> << <<"1">> >>],
     [title |-> "C", dependencies |-> << <<"2">>, <<"1">>, <<"2">> >>]}

NextIds ==
    \/ Initialize(Undefined, now)
    \/ \E input \in Creatable(IdsCreateInputs, MaxId) : CreateTask(input, now)
    \/ \E taskId \in Ids(MaxId) : DeleteTask(taskId, now)

SpecIds == Init /\ [][NextIds]_vars

\* this step is a createTask call that returned a task
CreateStep == ret'.op = "createTask" /\ ~ret'.threw /\ file' # file

\* C1 as claimed: every id returned by createTask is greater than the id the
\* previous createTask returned, deletions in between or not.
C1_AsClaimed ==
    [][CreateStep => ParseInt(ret'.result[1].id) > lastCreated]_vars

\* C1 amended: createTask returns String(m + 1), m the largest stored id (0 when
\* no task is stored): an id greater than every stored id, and greater than the
\* previously returned id whenever the task that got it is still stored.
C1_Theorem ==
    [][CreateStep =>
        LET id == ret'.result[1].id
            stored == Range(StoredIds)
        IN  /\ ~ParseIntIsNaN(id)
            /\ id = String(ParseInt(id))
            /\ ParseInt(id) = (IF stored = {} THEN 0 ELSE Max(stored)) + 1
            /\ \A m \in stored : ParseInt(id) > m
            /\ lastCreated \in stored => ParseInt(id) > lastCreated]_vars

\* createTask returned "3" after "1" was deleted: tasks "2" and "3" are stored
C1_Witness ==
    /\ ret.op = "createTask" /\ ~ret.threw
    /\ ret.result[1].id = <<"3">>
    /\ StoredIds = <<2, 3>>

\* C8: after deleteTask(id) returned true, id is in no stored task's dependencies.
C8_Theorem ==
    (ret.op = "deleteTask" /\ ~ret.threw /\ ret.result = TRUE) =>
        \A i \in 1..Len(getTasks) : ret.args[1] \notin Range(getTasks[i].dependencies)

\* deleteTask("2") removed both "2" from the dependencies ["2","1","2"]
C8_Witness ==
    /\ ret.op = "deleteTask" /\ ~ret.threw /\ ret.result = TRUE
    /\ ret.args[1] = <<"2">>
    /\ \E i \in 1..Len(getTasks) :
          getTasks[i].title = "C" /\ getTasks[i].dependencies = << <<"1">> >>

(***************************************************************************)
(* SpecNext: getNextTask over tasks of every status, with and without a    *)
(* dependency, created and moved by createTask and setStatus.              *)
(***************************************************************************)
NextCreateInputs ==
    {[title |-> "A", priority |-> "high"],
     [title |-> "B", dependencies |-> << <<"1">> >>],
     [title |-> "C"],
     [title |-> "D", priority |-> "high", dependencies |-> << <<"2">> >>]}

NextNext ==
    \/ Initialize(Undefined, now)
    \/ \E input \in Creatable(NextCreateInputs, SmallMaxId) : CreateTask(input, now)
    \/ \E taskId \in Ids(SmallMaxId), status \in TaskStatuses : SetStatus(taskId, status, now)
    \/ GetNextTask

SpecNext == Init /\ [][NextNext]_vars

\* The candidate pool, stated on the stored document: task i is not done, blocked
\* or deferred, and each of its dependencies is the id of a stored done task.
Stored(i) == getTasks[i]

IsDoneId(d) == \E j \in 1..Len(getTasks) : Stored(j).id = d /\ Stored(j).status = "done"

DependenciesDone(i) ==
    \A k \in 1..Len(Stored(i).dependencies) : IsDoneId(Stored(i).dependencies[k])

Candidate(i) ==
    /\ Stored(i).status \notin {"done", "blocked", "deferred"}
    /\ DependenciesDone(i)

Candidates == {i \in 1..Len(getTasks) : Candidate(i)}

\* getNextTask was the last call and returned normally
NextTaskReturned == ret.op = "getNextTask" /\ ~ret.threw

\* the rank of a priority: high 0, medium 1, low 2, any other 1
Rank(priority) ==
    IF priority = "high" THEN 0 ELSE IF priority = "low" THEN 2 ELSE 1

\* C3: the task getNextTask returns is not done, blocked or deferred, and each of
\* its dependencies is the id of a task that is done.
C3_Theorem ==
    (NextTaskReturned /\ ret.result # Null) =>
        /\ \E i \in 1..Len(getTasks) : Stored(i) = ret.result[1]
        /\ \A i \in 1..Len(getTasks) : Stored(i) = ret.result[1] => Candidate(i)

\* getNextTask returned task "2", which depends on the done task "1"
C3_Witness ==
    /\ NextTaskReturned /\ ret.result # Null
    /\ ret.result[1].id = <<"2">>
    /\ ret.result[1].dependencies = << <<"1">> >>
    /\ Stored(1).status = "done"

\* C4: when some candidate is in-progress, getNextTask returns the first
\* in-progress candidate in storage order.
C4_Theorem ==
    LET inProgress == {i \in Candidates : Stored(i).status = "in-progress"}
    IN  (NextTaskReturned /\ inProgress # {}) =>
            ret.result = <<Stored(Min(inProgress))>>

\* the in-progress task "2" of default priority was returned although the
\* pending candidate "1" has priority high and the lower id
C4_Witness ==
    /\ NextTaskReturned /\ ret.result # Null
    /\ ret.result[1].id = <<"2">>
    /\ ret.result[1].status = "in-progress"
    /\ ret.result[1].priority = "medium"
    /\ Stored(1).status = "pending" /\ Stored(1).priority = "high"

NextTaskStep == ret'.op = "getNextTask" /\ ~ret'.threw /\ ret # ret'

\* C7: getNextTask never returns a task that has a dependency which is not
\* done; and when it is called right after setStatus(d, "done") succeeded, a
\* task that depends on d, is not done, blocked or deferred and has no other
\* dependency that is not done is a candidate: a task is returned, and it is that
\* task when it is the only candidate.
C7_Theorem ==
    [][NextTaskStep =>
        /\ \A i \in 1..Len(getTasks) :
              ~DependenciesDone(i) => ret'.result # <<Stored(i)>>
        /\ (ret.op = "setStatus" /\ ~ret.threw /\ ret.result # Null /\ ret.args[2] = "done") =>
              \A i \in 1..Len(getTasks) :
                  ( /\ ret.args[1] \in Range(Stored(i).dependencies)
                    /\ Stored(i).status \notin {"done", "blocked", "deferred"}
                    /\ \A d \in Range(Stored(i).dependencies) \ {ret.args[1]} : IsDoneId(d) )
                  => /\ i \in Candidates
                     /\ ret'.result # Null
                     /\ (\A j \in Candidates : j = i) => ret'.result = <<Stored(i)>>]_vars

\* createTask(A, high), createTask(B, dependencies ["1"]), setStatus("1", "done"):
\* getNextTask returned task "2"
C7_Witness ==
    /\ NextTaskReturned /\ ret.result # Null
    /\ ret.result[1].id = <<"2">> /\ ret.result[1].title = "B"
    /\ Len(getTasks) = 2
    /\ Stored(1).title = "A" /\ Stored(1).priority = "high" /\ Stored(1).status = "done"
    /\ Stored(2).dependencies = << <<"1">> >> /\ Stored(2).status = "pending"

(***************************************************************************)
(* SpecPriority: getNextTask over tasks of every priority, none of them    *)
(* with a dependency, each pending or done.                                *)
(***************************************************************************)
PriorityCreateInputs ==
    {[title |-> "A", priority |-> "high"],
     [title |-> "B", priority |-> "medium"],
     [title |-> "C", priority |-> "low"],
     [title |-> "D", priority |-> "urgent"]}

NextPriority ==
    \/ Initialize(Undefined, now)
    \/ \E input \in Creatable(PriorityCreateInputs, MaxId) : CreateTask(input, now)
    \/ \E taskId \in Ids(MaxId) : SetStatus(taskId, "done", now)
    \/ GetNextTask

SpecPriority == Init /\ [][NextPriority]_vars

SubCreateInputs == {[title |-> "X"]}

SubSubtaskInputs == {[title |-> "Y"]}

NextSub ==
    \/ \E t \in Readings : Initialize(Undefined, t)
    \/ \E input \in Creatable(SubCreateInputs, SmallMaxId), t \in Readings : CreateTask(input, t)
    \/ \E taskId \in Extensible(Ids(1), MaxSubtasks), input \in SubSubtaskInputs, t \in Readings :
          AddSubtask(taskId, input, t)
    \/ \E taskId \in Ids(1) \cup DottedIds(1, MaxSubtasks), t \in Readings :
          SetStatus(taskId, "done", t)
    \/ Tick

SpecSub == Init /\ [][NextSub]_vars

\* this step is a setStatus call that reached subtask q of the task at p
SubtaskStatusStep(p, q) ==
    /\ ret'.op = "setStatus" /\ ~ret'.threw /\ ret'.result # Null
    /\ isInitialized /\ file' # file
    /\ p \in 1..Len(getTasks)
    /\ q \in 1..Len(Stored(p).subtasks)
    /\ ret'.args[1] = Stored(p).id \o <<".">> \o Stored(p).subtasks[q].id

\* a and b have the same keys and agree on each key outside the set keys
SameExcept(a, b, keys) ==
    /\ DOMAIN a = DOMAIN b
    /\ \A k \in (DOMAIN a) \ keys : a[k] = b[k]

\* C9: setStatus on the dotted id of an existing subtask sets that subtask's
\* status and updatedAt and its parent's updatedAt, returns the subtask, and
\* leaves every other field of the parent, every sibling and every other task
\* as it was.
C9_Theorem ==
    [][\A p \in 1..SmallMaxId, q \in 1..MaxSubtasks :
        SubtaskStatusStep(p, q) =>
            LET before == getTasks
                after == file'[1].tasks
            IN  /\ Len(after) = Len(before)
                /\ \A i \in 1..Len(before) : i # p => after[i] = before[i]
                /\ SameExcept(after[p], before[p], {"subtasks", "updatedAt"})
                /\ after[p].updatedAt = now
                /\ Len(after[p].subtasks) = Len(before[p].subtasks)
                /\ \A j \in 1..Len(before[p].subtasks) :
                      j # q => after[p].subtasks[j] = before[p].subtasks[j]
                /\ SameExcept(after[p].subtasks[q], before[p].subtasks[q],
                              {"status", "updatedAt"})
                /\ after[p].subtasks[q].status = ret'.args[2]
                /\ after[p].subtasks[q].updatedAt = now
                /\ ret'.result = <<after[p].subtasks[q]>>]_vars

\* setStatus("1.2", "done") at a later time than the creations: task "1" is
\* still pending, its subtask "1" is still pending, task "2" is there
C9_Witness ==
    /\ ret.op = "setStatus" /\ ~ret.threw /\ ret.result # Null
    /\ ret.args = << <<"1", ".", "2">>, "done" >>
    /\ Len(getTasks) = 2
    /\ Stored(1).status = "pending"
    /\ Stored(1).updatedAt > Stored(1).createdAt
    /\ Len(Stored(1).subtasks) = 2
    /\ Stored(1).subtasks[1].status = "pending"
    /\ Stored(1).subtasks[2].status = "done"
    /\ Stored(1).subtasks[2].updatedAt = Stored(1).updatedAt

(***************************************************************************)
(* SpecUntyped: updateTask called with an object that carries more than    *)
(* the fields of UpdateTaskInput, as a caller outside the type checker or  *)
(* behind a cast can pass.                                                 *)
(***************************************************************************)
UntypedCreateInputs == {[title |-> "A"]}

UntypedUpdateInputs ==
    {[title |-> "T"],
     [id |-> <<"2">>],
     [createdAt |-> 1],
     [subtasks |-> <<>>, status |-> "done"]}

NextUntyped ==
    \/ Initialize(Undefined, now)
    \/ \E input \in Creatable(UntypedCreateInputs, SmallMaxId) : CreateTask(input, now)
    \/ \E taskId \in Extensible(Ids(1), MaxSubtasks), input \in SubtaskInputs :
          AddSubtask(taskId, input, now)
    \/ \E taskId \in Ids(SmallMaxId), input \in UntypedUpdateInputs :
          UpdateTask(taskId, input, now)

SpecUntyped == Init /\ [][NextUntyped]_vars

\* this step is an updateTask call that found the task at p
UpdateStep(p) ==
    /\ ret'.op = "updateTask" /\ ~ret'.threw /\ ret'.result # Null
    /\ isInitialized
    /\ p \in 1..Len(getTasks)
    /\ Stored(p).id = ret'.args[1]
    /\ \A i \in 1..(p - 1) : Stored(i).id # ret'.args[1]

\* C10 as claimed: whatever the input carries, the task updateTask stores has
\* the id, the createdAt and the subtasks it had.
C10_AsClaimed ==
    [][\A p \in 1..SmallMaxId :
        UpdateStep(p) =>
            /\ file'[1].tasks[p].id = Stored(p).id
            /\ file'[1].tasks[p].createdAt = Stored(p).createdAt
            /\ file'[1].tasks[p].subtasks = Stored(p).subtasks]_vars

(***************************************************************************)
(* SpecStamp: the five mutating calls with a clock that ticks, on tasks    *)
(* with and without a dependency.                                          *)
(***************************************************************************)
StampCreateInputs ==
    {[title |-> "A"],
     [title |-> "B", dependencies |-> << <<"1">> >>]}

StampUpdateInputs == {[title |-> "T"]}

NextStamp ==
    \/ \E t \in Readings : Initialize(Undefined, t)
    \/ \E input \in Creatable(StampCreateInputs, SmallMaxId), t \in Readings :
          CreateTask(input, t)
    \/ \E taskId \in Ids(SmallMaxId), input \in StampUpdateInputs, t \in Readings :
          UpdateTask(taskId, input, t)
    \/ \E taskId \in Ids(SmallMaxId), t \in Readings : DeleteTask(taskId, t)
    \/ \E taskId \in Ids(1) \cup DottedIds(1, MaxSubtasks), t \in Readings :
          SetStatus(taskId, "done", t)
    \/ \E taskId \in Extensible(Ids(1), MaxSubtasks), input \in SubtaskInputs, t \in Readings :
          AddSubtask(taskId, input, t)
    \/ Tick

SpecStamp == Init /\ [][NextStamp]_vars

\* this step is a call that wrote the document of an initialized project
WriteStep == isInitialized /\ file' # file

\* a and b differ in a field other than id, createdAt and updatedAt
FieldsDiffer(a, b) ==
    \/ DOMAIN a # DOMAIN b
    \/ \E k \in (DOMAIN a) \ {"id", "createdAt", "updatedAt"} : a[k] # b[k]

\* C11 as claimed: when a call leaves a task in the document and changes one of
\* its fields, the task's updatedAt is a reading of the clock during that call.
C11_AsClaimed ==
    [][WriteStep =>
        \A i \in 1..Len(getTasks), j \in 1..Len(file'[1].tasks) :
            ( /\ Stored(i).id = file'[1].tasks[j].id
              /\ FieldsDiffer(Stored(i), file'[1].tasks[j]) )
            => /\ file'[1].tasks[j].updatedAt >= now
               /\ file'[1].tasks[j].updatedAt <= now']_vars

(***************************************************************************)
(* SpecConcurrent: several TaskManager instances, each in its own process, *)
(* run createTask and deleteTask on the same tasks.json.  A call is two    *)
(* steps: getTasks() reads the file and the call computes in memory; then  *)
(* saveTasks writes the file.  saveTasks reads the file once more before   *)
(* it writes, for the version and the project name, which no call of this  *)
(* specification changes, so that read is part of the write step.  Steps   *)
(* of different instances interleave in any order.                         *)
(***************************************************************************)
\* what op(args) computes from the loaded tasks at the clock reading t: whether
\* it goes on to saveTasks, the tasks it would save, and what it returns; op is
\* createTask, deleteTask, updateTask, setStatus or addSubtask
Compute(op, args, tasks, t) ==
    IF op = "createTask"
    THEN LET task == newTask(tasks, args[1], t)
         IN  [saves |-> TRUE, tasks |-> Append(tasks, task), result |-> <<task>>]
    ELSE IF op = "deleteTask"
    THEN LET index == FindIndexById(tasks, args[1])
         IN  IF index = 0
             THEN [saves |-> FALSE, tasks |-> tasks, result |-> FALSE]
             ELSE [saves |-> TRUE,
                   tasks |-> removeDependency(RemoveAt(tasks, index), args[1]),
                   result |-> TRUE]
    ELSE IF op = "updateTask"
    THEN LET index == FindIndexById(tasks, args[1])
             updatedTask == mergeTask(tasks[index], args[2], t)
         IN  IF index = 0
             THEN [saves |-> FALSE, tasks |-> tasks, result |-> Null]
             ELSE [saves |-> TRUE,
                   tasks |-> [tasks EXCEPT ![index] = updatedTask],
                   result |-> <<updatedTask>>]
    ELSE IF op = "setStatus"
    THEN LET parts == Split(args[1])
             taskIndex == FindIndexById(tasks, parts[1])
             subtasks == tasks[taskIndex].subtasks
             subtaskIndex == FindIndexById(subtasks, parts[2])
         IN  IF taskIndex = 0
             THEN [saves |-> FALSE, tasks |-> tasks, result |-> Null]
             ELSE IF Len(parts) = 1
             THEN [saves |-> TRUE,
                   tasks |-> [tasks EXCEPT ![taskIndex] = withStatus(@, args[2], t)],
                   result |-> <<withStatus(tasks[taskIndex], args[2], t)>>]
             ELSE IF subtaskIndex = 0
             THEN [saves |-> FALSE, tasks |-> tasks, result |-> Null]
             ELSE [saves |-> TRUE,
                   tasks |-> [tasks EXCEPT ![taskIndex] =
                                 setSubtaskStatus(@, subtaskIndex, args[2], t)],
                   result |-> <<withStatus(subtasks[subtaskIndex], args[2], t)>>]
    ELSE LET taskIndex == FindIndexById(tasks, args[1])
             subtask == newSubtask(tasks[taskIndex].subtasks, args[2], t)
         IN  IF taskIndex = 0
             THEN [saves |-> FALSE, tasks |-> tasks, result |-> Null]
             ELSE [saves |-> TRUE,
                   tasks |-> [tasks EXCEPT ![taskIndex] =
                                 [@ EXCEPT !.subtasks = Append(@, subtask),
                                           !.updatedAt = t]],
                   result |-> <<subtask>>]

\* instance m completes a call with this outcome
CompleteBy(m, outcome) ==
    /\ ret' = outcome
    /\ managers' = [managers EXCEPT ![m] = Idle(outcome)]

\* instance m enters op(args): this.storage.getTasks(), then the computation
Load(m, op, args) ==
    /\ managers[m].pc = "idle"
    /\ IF ~isInitialized
       THEN CompleteBy(m, Threw(op, args))
       ELSE LET c == Compute(op, args, getTasks, now)
            IN  IF c.saves
                THEN /\ managers' = [managers EXCEPT ![m] =
                            [pc |-> "computed", op |-> op, args |-> args,
                             snapshot |-> getTasks, tasks |-> c.tasks, result |-> c.result]]
                     /\ UNCHANGED ret
                ELSE CompleteBy(m, Returned(op, args, c.result))
    /\ UNCHANGED <<file, now, lastCreated, caller>>

\* Save that adds a created task to the tasks of the file as it is now
Save_Appending(m) ==
    /\ managers[m].pc = "computed"
    /\ file' = saveTasks(IF managers[m].op = "createTask"
                         THEN Append(getTasks, managers[m].result[1])
                         ELSE managers[m].tasks, now)
    /\ CompleteBy(m, Returned(managers[m].op, managers[m].args, managers[m].result))
    /\ lastCreated' = IF managers[m].op = "createTask"
                      THEN ParseIntOrZero(managers[m].result[1].id)
                      ELSE lastCreated
    /\ UNCHANGED <<now, caller>>

\* instance m goes on: this.storage.saveTasks(tasks), and the return
Save(m) ==
    /\ managers[m].pc = "computed"
    /\ file' = saveTasks(managers[m].tasks, now)
    /\ CompleteBy(m, Returned(managers[m].op, managers[m].args, managers[m].result))
    /\ lastCreated' = IF managers[m].op = "createTask"
                      THEN ParseIntOrZero(managers[m].result[1].id)
                      ELSE lastCreated
    /\ UNCHANGED <<now, caller>>

\* the task instance m creates: "A" for the first instance, "B" for the second
ConcurrentCreateInputs(m) == {[title |-> <<"A", "B", "C", "D">>[m]]}

\* the arguments with which the rtaskmaster_init tool reaches initialize: the
\* instance it made is in no call, and no document exists
WhenNew(inputs) == {input \in inputs : CallerIdle /\ ~isInitialized}

NextConcurrent ==
    \/ \E projectName \in WhenNew({Undefined}) : Initialize(projectName, now)
    \/ \E m \in Managers :
          \E input \in Creatable(ConcurrentCreateInputs(m), SmallMaxId) :
              Load(m, "createTask", <<input>>)
    \/ \E m \in Managers, taskId \in Ids(1) : Load(m, "deleteTask", <<taskId>>)
    \/ \E m \in Managers : Save(m)

SpecConcurrent == Init /\ [][NextConcurrent]_vars

\* this step is the write that ends a call of instance m
SaveStep(m) == managers[m].pc = "computed" /\ managers'[m].pc = "idle"

\* the largest numeric id among tasks, 0 when there is none
MaxStoredId(tasks) ==
    IF Len(tasks) = 0 THEN 0
    ELSE Max({ParseIntOrZero(tasks[i].id) : i \in 1..Len(tasks)})

\* C12: whatever the other instances wrote since instance m loaded its
\* snapshot, the task sequence m writes is its own operation applied to that
\* snapshot and nothing else: for createTask the snapshot followed by the new
\* task, whose id is one more than the largest id of the snapshot; for
\* deleteTask the snapshot without the deleted task.
C12_Theorem ==
    [][\A m \in Managers :
        SaveStep(m) =>
            LET call == managers[m]
                snapshot == call.snapshot
                after == file'[1].tasks
            IN  /\ ret' = managers'[m].done
                /\ call.op = "createTask" =>
                      /\ Len(after) = Len(snapshot) + 1
                      /\ SubSeq(after, 1, Len(snapshot)) = snapshot
                      /\ after[Len(after)].title = call.args[1].title
                      /\ after[Len(after)].id = String(MaxStoredId(snapshot) + 1)
                      /\ ret'.result[1].id = after[Len(after)].id
                /\ call.op = "deleteTask" =>
                      /\ Len(after) = Len(snapshot) - 1
                      /\ \A i \in 1..Len(after) :
                            /\ after[i].id # call.args[1]
                            /\ \E j \in 1..Len(snapshot) :
                                  SameExcept(after[i], snapshot[j], {"dependencies"})
                      /\ ret'.result = TRUE]_vars

\* a lost update: two instances ran createTask on the same empty snapshot, both
\* returned id "1", and only the task written last is in the document
C12_Witness ==
    /\ isInitialized
    /\ \A m \in {1, 2} :
          /\ managers[m].pc = "idle"
          /\ managers[m].done.op = "createTask" /\ ~managers[m].done.threw
          /\ managers[m].done.result[1].id = <<"1">>
    /\ managers[1].done.result[1].title = "A"
    /\ managers[2].done.result[1].title = "B"
    /\ Len(getTasks) = 1
    /\ getTasks[1].title = "B"

(***************************************************************************)
(* SpecShared: several TaskManager instances on one project root, their    *)
(* calls one after the other: each call runs from start to end before the  *)
(* next one, of the same or of another instance, starts.                   *)
(***************************************************************************)
SharedCreateInputs == {[title |-> "A"]}

\* getTasks() without a filter
NoFilter == <<>>

\* the two instances that take turns
TwoManagers == {1, 2}

NextShared ==
    \/ Initialize(Undefined, now)
    \/ \E input \in Creatable(SharedCreateInputs, SmallMaxId) : CreateTask(input, now)
    \/ \E taskId \in Ids(SmallMaxId) : SetStatus(taskId, "done", now)
    \/ GetTasks(NoFilter)
    \/ \E taskId \in Ids(SmallMaxId) : GetTask(taskId)
    \/ GetNextTask
    \/ GetStats
    \/ \E m \in TwoManagers : Switch(m)

SpecShared == Init /\ [][NextShared]_vars

\* the last call was op and it returned normally
LastReturned(op) == ret.op = op /\ ~ret.threw

\* the positions of the stored tasks with this id
StoredAt(id) == {i \in 1..Len(getTasks) : Stored(i).id = id}

\* the number of stored tasks with this status
StoredWith(status) == Cardinality({i \in 1..Len(getTasks) : Stored(i).status = status})

\* C13: what a read returns is determined by the document as the last
\* completed mutation left it, whichever instance made the mutation and
\* whichever instance reads: getTasks returns the stored tasks, getTask the
\* stored task with that id, getNextTask a stored candidate, getStats the
\* counts of the stored tasks.
C13_Theorem ==
    /\ LastReturned("getTasks") => ret.result = getTasks
    /\ LastReturned("getTask") =>
          ret.result = (IF StoredAt(ret.args[1]) = {} THEN Null
                        ELSE <<Stored(Min(StoredAt(ret.args[1])))>>)
    /\ LastReturned("getNextTask") =>
          IF Candidates = {} THEN ret.result = Null
          ELSE \E i \in Candidates : ret.result = <<Stored(i)>>
    /\ LastReturned("getStats") =>
          /\ ret.result.total = Len(getTasks)
          /\ ret.result.pending = StoredWith("pending")
          /\ ret.result.done = StoredWith("done")

\* instance 1 created task "1" and then set it done; instance 2, which had
\* read the statistics of the empty document before, reads them again and
\* gets one task, done
C13_Witness ==
    /\ caller = 2
    /\ LastReturned("getStats")
    /\ managers[2].done = ret
    /\ ret.result.total = 1 /\ ret.result.done = 1
    /\ managers[1].done.op = "setStatus" /\ ~managers[1].done.threw
    /\ managers[1].done.result # Null
    /\ managers[1].done.result[1].id = <<"1">>

(***************************************************************************)
(* SpecMissing: calls with ids that resolve and ids that do not, with a    *)
(* clock that ticks between the calls.  The ids are those of the last task *)
(* the model creates, of its first subtask, and of the last subtask the    *)
(* model adds to task "1".                                                 *)
(***************************************************************************)
MissingCreateInputs == {[title |-> "X"]}

LastIds == {String(SmallMaxId)}

LastDottedIds == {Dotted(1, MaxSubtasks), Dotted(SmallMaxId, 1)}

NextMissing ==
    \/ Initialize(Undefined, now)
    \/ \E input \in Creatable(MissingCreateInputs, SmallMaxId) : CreateTask(input, now)
    \/ \E taskId \in Extensible(Ids(1), MaxSubtasks), input \in SubtaskInputs :
          AddSubtask(taskId, input, now)
    \/ \E taskId \in LastIds, input \in StampUpdateInputs : UpdateTask(taskId, input, now)
    \/ \E taskId \in LastIds : DeleteTask(taskId, now)
    \/ \E taskId \in LastIds \cup LastDottedIds : SetStatus(taskId, "done", now)
    \/ Tick

SpecMissing == Init /\ [][NextMissing]_vars

\* id is the id of a stored task
ResolvesToTask(id) == StoredAt(id) # {}

\* id is N.M for a stored task N and a subtask M of it
ResolvesToSubtask(id) ==
    \E i \in 1..Len(getTasks) :
        \E j \in 1..Len(Stored(i).subtasks) :
            id = Stored(i).id \o <<".">> \o Stored(i).subtasks[j].id

\* this step is a call of updateTask, deleteTask, setStatus or addSubtask on an
\* initialized project with an id that does not resolve
NotFoundStep ==
    /\ isInitialized
    /\ ret' # ret
    /\ ret'.op \in {"updateTask", "deleteTask", "setStatus", "addSubtask"}
    /\ ~ResolvesToTask(ret'.args[1])
    /\ ret'.op = "setStatus" => ~ResolvesToSubtask(ret'.args[1])

\* C14: updateTask, deleteTask, setStatus and addSubtask with an id that does
\* not resolve do not throw, return null (deleteTask: false) and leave the
\* document as it was, lastUpdated included.
C14_Theorem ==
    [][NotFoundStep =>
        /\ ~ret'.threw
        /\ ret'.result = (IF ret'.op = "deleteTask" THEN FALSE ELSE Null)
        /\ file' = file]_vars

\* setStatus("1.2", "done") returned null at time 1: task "1" has one subtask,
\* and the document still has the lastUpdated of time 0
C14_Witness ==
    /\ ret = Returned("setStatus", <<Dotted(1, 2), "done">>, Null)
    /\ isInitialized
    /\ Len(getTasks) = 1 /\ Len(Stored(1).subtasks) = 1
    /\ now = 1
    /\ file[1].lastUpdated = 0

(***************************************************************************)
(* SpecAll: every TaskManager operation, on a project that may or may not  *)
(* be initialized.                                                         *)
(***************************************************************************)
AllCreateInputs == {[title |-> "X"]}

NextAll ==
    \/ IsInitialized
    \/ Initialize(Undefined, now)
    \/ GetTasks(NoFilter)
    \/ \E taskId \in Ids(1) \cup DottedIds(1, MaxSubtasks) : GetTask(taskId)
    \/ \E taskId \in Ids(1) \cup DottedIds(1, MaxSubtasks) : GetParentTask(taskId)
    \/ \E input \in Creatable(AllCreateInputs, SmallMaxId) : CreateTask(input, now)
    \/ \E taskId \in Ids(1), input \in StampUpdateInputs : UpdateTask(taskId, input, now)
    \/ \E taskId \in Ids(1) : DeleteTask(taskId, now)
    \/ \E taskId \in Ids(1) \cup DottedIds(1, MaxSubtasks) : SetStatus(taskId, "done", now)
    \/ \E taskId \in Extensible(Ids(1), MaxSubtasks), input \in SubtaskInputs :
          AddSubtask(taskId, input, now)
    \/ GetNextTask
    \/ GetStats

SpecAll == Init /\ [][NextAll]_vars

\* the operations that need the document
DocumentOperations ==
    {"getTasks", "getTask", "getParentTask", "createTask", "updateTask", "deleteTask",
     "setStatus", "addSubtask", "getNextTask", "getStats"}

\* C15: as long as the project has no document, the last call, unless it was
\* isInitialized, has thrown; and a call that has thrown was one of the ten
\* operations that need the document, and has left the project without one.
C15_Theorem ==
    /\ ~isInitialized => (ret.op \in {"new", "isInitialized"} \/ ret.threw)
    /\ ret.threw => (ret.op \in DocumentOperations /\ ~isInitialized)

\* getStats has thrown, and there is no document
C15_Witness ==
    /\ ret = Threw("getStats", <<>>)
    /\ ~isInitialized

\* C16: right after initialize, on a project with or without a document, the
\* document is a fresh one: the version, the project name, no task, and the
\* time of the call; initialize has not thrown and has returned that document.
C16_Theorem ==
    ret.op = "initialize" =>
        /\ ~ret.threw
        /\ isInitialized
        /\ file[1] = [version |-> VERSION, projectName |-> "project",
                      tasks |-> <<>>, lastUpdated |-> now]
        /\ ret.result[1].tasks = <<>>

\* instance 1 created a task; then instance 2 called initialize, and the
\* document has no task (no call of SpecShared removes a task)
C16_Witness ==
    /\ caller = 2
    /\ ret.op = "initialize" /\ ~ret.threw
    /\ managers[2].done = ret
    /\ managers[1].done.op = "createTask" /\ ~managers[1].done.threw
    /\ getTasks = <<>>

(***************************************************************************)
(* SpecStats: getStats on a project without a document and on documents    *)
(* with up to MaxTotal tasks.  Such a document is what createTask, called  *)
(* total times, and setStatus leave:                                       *)
(* tasks "1" .. String(total), of which the first done are done and the    *)
(* others are, in turn, in-progress, blocked, deferred and pending.        *)
(***************************************************************************)
StatsStatuses == <<"in-progress", "blocked", "deferred", "pending">>

StatsTask(i, done) ==
    [id |-> String(i), title |-> "T", description |-> "",
     status |-> IF i <= done THEN "done" ELSE StatsStatuses[(i % 4) + 1],
     priority |-> "medium", dependencies |-> <<>>, subtasks |-> <<>>,
     createdAt |-> 0, updatedAt |-> 0]

StatsTasks(done, total) == [i \in 1..total |-> StatsTask(i, done)]

\* the numbers of done tasks and of tasks
StatsCounts == {c \in (0..MaxTotal) \X (0..MaxTotal) : c[1] <= c[2]}

\* no document, and the documents with those numbers of tasks
StatsFiles ==
    {<<>>} \cup
    {<< [version |-> VERSION, projectName |-> "project",
         tasks |-> StatsTasks(c[1], c[2]), lastUpdated |-> 0] >> : c \in StatsCounts}

InitStats ==
    /\ file \in StatsFiles
    /\ now = 0
    /\ ret = Returned("new", <<>>, Null)
    /\ lastCreated = IF file = <<>> THEN 0 ELSE Len(file[1].tasks)
    /\ caller = 1
    /\ managers = [m \in Managers |-> Idle(Returned("new", <<>>, Null))]

NextStats == GetStats

SpecStats == InitStats /\ [][NextStats]_vars

\* 100 * done / total rounded to the nearest integer, a half going up
RoundHalfUp(done, total) == (200 * done + total) \div (2 * total)

\* C17 as claimed: completionPercentage is 100 * done / total rounded to the
\* nearest integer, a half going up, and 0 when there is no task.
C17_AsClaimed ==
    LastReturned("getStats") =>
        ret.result.completionPercentage =
            (IF Len(getTasks) = 0 THEN 0 ELSE RoundHalfUp(StoredWith("done"), Len(getTasks)))

(***************************************************************************)
(* SpecRoundTrip: the storage is called directly.  saveTasks is given      *)
(* sequences of up to SmallMaxId tasks; a task has no details, details     *)
(* undefined or details, and no subtask or three subtasks: one without a   *)
(* description, one with an undefined description and one with a           *)
(* description.  The tasks were created at time 0 and updated at time 1,   *)
(* and are saved at time 0.                                                *)
(***************************************************************************)
Absent == "<absent>"

\* the object o with the optional key k absent, undefined or holding value
WithOptional(o, k, value) ==
    [j \in (IF value = Absent THEN DOMAIN o ELSE DOMAIN o \cup {k}) |->
        IF j = k THEN value ELSE o[j]]

RoundTripSubtask(j, description) ==
    WithOptional([id |-> Dotted(1, j), title |-> "S", status |-> "pending",
                  createdAt |-> 0, updatedAt |-> 1],
                 "description", description)

RoundTripSubtasks ==
    {<<>>,
     <<RoundTripSubtask(1, Absent), RoundTripSubtask(2, Undefined),
       RoundTripSubtask(3, "d")>>}

RoundTripTask(i, details, subtasks) ==
    WithOptional([id |-> String(i), title |-> "T", description |-> "",
                  status |-> "pending", priority |-> "medium",
                  dependencies |-> <<>>, subtasks |-> subtasks,
                  createdAt |-> 0, updatedAt |-> 1],
                 "details", details)

RoundTripShapes == {Absent, Undefined, "d"} \X RoundTripSubtasks

RoundTripTasks ==
    UNION {{[i \in 1..n |-> RoundTripTask(i, shapes[i][1], shapes[i][2])] :
                shapes \in [1..n -> RoundTripShapes]} : n \in 0..SmallMaxId}

NextRoundTrip ==
    \/ Initialize(Undefined, now)
    \/ \E tasks \in RoundTripTasks : StorageSaveTasks(tasks, now)
    \/ StorageGetTasks

SpecRoundTrip == Init /\ [][NextRoundTrip]_vars

OptionalKeys == {"description", "details", "testStrategy"}

\* the object read has the fields of the object saved, subtasks aside, and
\* no key for an optional field that was absent or undefined
SameFields(saved, read) ==
    /\ \A k \in (DOMAIN saved \cup DOMAIN read) \ {"subtasks"} :
           Get(read, k) = Get(saved, k)
    /\ \A k \in OptionalKeys : IsUndefined(saved, k) => k \notin DOMAIN read

SameTask(saved, read) ==
    /\ SameFields(saved, read)
    /\ Len(read.subtasks) = Len(saved.subtasks)
    /\ \A j \in 1..Len(saved.subtasks) : SameFields(saved.subtasks[j], read.subtasks[j])

\* C18: on an initialized project, the getTasks() that follows saveTasks(tasks)
\* returns as many tasks as were saved, in the same order, each equal to the
\* saved one in every field (updatedAt too), its subtasks likewise, and an
\* optional field that was absent or undefined is absent.
C18_Theorem ==
    [][(/\ ret.op = "storage.saveTasks" /\ ~ret.threw
        /\ ret'.op = "storage.getTasks")
       => /\ ~ret'.threw
          /\ Len(ret'.result) = Len(ret.args[1])
          /\ \A i \in 1..Len(ret.args[1]) : SameTask(ret.args[1][i], ret'.result[i])]_vars

\* two tasks were saved, the first one with details and three subtasks, of
\* which the second had an undefined description, the second one with
\* undefined details; getTasks returned both, without those keys and with
\* the time of their last update, which is not the time of the save
C18_Witness ==
    /\ ret.op = "storage.getTasks" /\ ~ret.threw
    /\ managers[caller].done = ret
    /\ Len(ret.result) = 2
    /\ Get(ret.result[1], "details") = "d"
    /\ Len(ret.result[1].subtasks) = 3
    /\ "description" \notin DOMAIN ret.result[1].subtasks[2]
    /\ "details" \notin DOMAIN ret.result[2]
    /\ ret.result[2].updatedAt = 1
    /\ now = 0

(***************************************************************************)
(* SpecUpdate: updateTask with the inputs its type allows, on documents of *)
(* up to SmallMaxId tasks.  An input lists one field, or several fields of *)
(* which one has the value undefined.  The clock advances during the       *)
(* updateTask calls.                                                       *)
(***************************************************************************)
UpdateCreateInputs == {[title |-> "A", details |-> "x"]}

TypedUpdateInputs ==
    {[title |-> "U"],
     [status |-> "done", details |-> Undefined]}

NextUpdate ==
    \/ \E projectName \in WhenNew({Undefined}) : Initialize(projectName, now)
    \/ \E input \in Creatable(UpdateCreateInputs, SmallMaxId) : CreateTask(input, now)
    \/ \E taskId \in Ids(SmallMaxId), input \in TypedUpdateInputs, t \in Readings :
           UpdateTask(taskId, input, t)

SpecUpdate == Init /\ [][NextUpdate]_vars

TaskKeys == {"id", "title", "description", "status", "priority", "dependencies",
             "subtasks", "details", "testStrategy", "createdAt", "updatedAt"}

\* a completed updateTask that found its task
UpdateFound ==
    /\ isInitialized
    /\ ret' # ret \/ file' # file
    /\ ret'.op = "updateTask" /\ ~ret'.threw
    /\ ret'.result # Null

\* C19: updateTask on an existing id gives the task the value of every field
\* the input lists, leaves its other fields as they were, sets its updatedAt
\* to the time of the call, leaves the other tasks and the position of the
\* task as they were, and returns the task as updated.
C19_Theorem ==
    [][UpdateFound =>
        LET taskId == ret'.args[1]
            input == ret'.args[2]
            before == getTasks
            after == file'[1].tasks
            index == FindIndexById(before, taskId)
        IN  /\ index # 0
            /\ Len(after) = Len(before)
            /\ \A i \in (1..Len(before)) \ {index} : after[i] = before[i]
            /\ \A k \in DOMAIN input : Get(after[index], k) = input[k]
            /\ \A k \in TaskKeys \ (DOMAIN input \cup {"updatedAt"}) :
                   Get(after[index], k) = Get(before[index], k)
            /\ DOMAIN after[index] \subseteq TaskKeys
            /\ after[index].updatedAt = now
            /\ \A k \in TaskKeys : Get(ret'.result[1], k) = Get(after[index], k)]_vars

\* two tasks were created at time 0; at time 1 updateTask("1", {title: "U"})
\* returned task "1" with that title, its details and creation time as they
\* were and updatedAt 1, and task "2" is second and as created
C19_Witness ==
    /\ ret.op = "updateTask" /\ ~ret.threw /\ ret.result # Null
    /\ ret.args = << <<"1">>, [title |-> "U"] >>
    /\ Len(getTasks) = 2
    /\ getTasks[1].id = <<"1">> /\ getTasks[1].title = "U"
    /\ Get(getTasks[1], "details") = "x"
    /\ getTasks[1].createdAt = 0 /\ getTasks[1].updatedAt = 1
    /\ getTasks[2].id = <<"2">> /\ getTasks[2].title = "A"
    /\ getTasks[2].updatedAt = 0

(***************************************************************************)
(* SpecCreate: createTask with a title only and with every optional field, *)
(* on documents of up to MaxId tasks, of which the first may be done,      *)
(* while the clock ticks between and during the calls.                     *)
(***************************************************************************)
CreateOnlyInputs ==
    {[title |-> "A"],
     [title |-> "B", description |-> "d", priority |-> "high",
      dependencies |-> << <<"1">> >>, details |-> "x", testStrategy |-> "s"],
     [title |-> "C", priority |-> "low", dependencies |-> <<>>]}

NextCreate ==
    \/ \E projectName \in WhenNew({Undefined}) : Initialize(projectName, now)
    \/ \E input \in Creatable(CreateOnlyInputs, MaxId), t \in Readings :
           CreateTask(input, t)
    \/ \E taskId \in Ids(1) : SetStatus(taskId, "done", now)
    \/ Tick

SpecCreate == Init /\ [][NextCreate]_vars

\* the value createTask gives to key k when the input does not specify it
Unspecified(k) ==
    CASE k = "description" -> ""
      [] k = "priority" -> "medium"
      [] k = "dependencies" -> <<>>
      [] OTHER -> Undefined

\* C20: createTask adds one task after the stored ones, which stay as they
\* were and in their order; the task has the fields of the input, status
\* pending, no subtask, priority medium, no dependency and description ""
\* where the input has none, and createdAt = updatedAt = the time of the call;
\* createTask returns it.
C20_Theorem ==
    [][CreateStep =>
        LET input == ret'.args[1]
            before == getTasks
            after == file'[1].tasks
            task == after[Len(after)]
        IN  /\ Len(after) = Len(before) + 1
            /\ SubSeq(after, 1, Len(before)) = before
            /\ \A k \in {"title", "description", "priority", "dependencies",
                         "details", "testStrategy"} :
                   Get(task, k) = (IF k \in DOMAIN input THEN input[k] ELSE Unspecified(k))
            /\ task.status = "pending"
            /\ task.subtasks = <<>>
            /\ task.createdAt = now /\ task.updatedAt = now
            /\ DOMAIN task \subseteq TaskKeys
            /\ \A k \in TaskKeys : Get(ret'.result[1], k) = Get(task, k)]_vars

\* a task with every optional field was created at time 0; at time 1
\* createTask({title: "A"}) returned task "2", stored after it with the
\* defaults and both timestamps 1, and the first task is as it was created
C20_Witness ==
    /\ ret.op = "createTask" /\ ~ret.threw
    /\ ret.args = << [title |-> "A"] >>
    /\ ret.result[1].id = <<"2">>
    /\ Len(getTasks) = 2
    /\ getTasks[1].priority = "high" /\ getTasks[1].createdAt = 0
    /\ getTasks[1].updatedAt = 0
    /\ getTasks[2].id = <<"2">> /\ getTasks[2].title = "A"
    /\ getTasks[2].priority = "medium" /\ getTasks[2].description = ""
    /\ getTasks[2].dependencies = <<>> /\ getTasks[2].subtasks = <<>>
    /\ getTasks[2].status = "pending"
    /\ getTasks[2].createdAt = 1 /\ getTasks[2].updatedAt = 1

(***************************************************************************)
(* SpecParents: subtasks are added to the first and to the last task of a  *)
(* document of up to SmallMaxId tasks, up to MaxSubtasks each, while the   *)
(* clock advances, and statuses of subtasks are set.                       *)
(***************************************************************************)
ParentsCreateInputs == {[title |-> "P"]}

ParentsSubtaskInputs == {[title |-> "S"]}

ParentIds == {String(1), String(SmallMaxId)}

ParentsStatusIds == {Dotted(1, 1), Dotted(SmallMaxId, MaxSubtasks)}

NextParents ==
    \/ \E projectName \in WhenNew({Undefined}) : Initialize(projectName, now)
    \/ \E input \in Creatable(ParentsCreateInputs, SmallMaxId) : CreateTask(input, now)
    \/ \E taskId \in Extensible(ParentIds, MaxSubtasks), input \in ParentsSubtaskInputs,
          t \in Readings :
           AddSubtask(taskId, input, t)
    \/ \E taskId \in ParentsStatusIds : SetStatus(taskId, "done", now)

SpecParents == Init /\ [][NextParents]_vars

\* a completed addSubtask that found its parent
SubtaskAdded ==
    /\ isInitialized
    /\ ret' # ret \/ file' # file
    /\ ret'.op = "addSubtask" /\ ~ret'.threw
    /\ ret'.result # Null

SubtaskKeys == {"id", "title", "description", "status", "createdAt", "updatedAt"}

\* the numbers that are ids of these subtasks
SubtaskNumbers(subtasks) == {ParseIntOrZero(subtasks[j].id) : j \in 1..Len(subtasks)}

\* every stored task has the subtasks "1" .. "n", in that order
SubtasksNumbered ==
    isInitialized =>
        \A i \in 1..Len(getTasks) :
            \A j \in 1..Len(Stored(i).subtasks) : Stored(i).subtasks[j].id = String(j)

\* C21: addSubtask on an existing parent adds one pending subtask after that
\* parent's subtasks, with the id one more than the largest id among them ("1"
\* when there is none), and sets the parent's updatedAt to the time of the
\* call; the other tasks stay as they were.  In every state the subtasks of
\* each task have the ids "1" .. "n" in the order they were added.
C21_Theorem ==
    /\ []SubtasksNumbered
    /\ [][SubtaskAdded =>
            LET before == getTasks
                after == file'[1].tasks
                p == FindIndexById(before, ret'.args[1])
                old == before[p].subtasks
                new == after[p].subtasks
                added == new[Len(new)]
            IN  /\ p # 0
                /\ Len(after) = Len(before)
                /\ \A i \in (1..Len(before)) \ {p} : after[i] = before[i]
                /\ Len(new) = Len(old) + 1
                /\ SubSeq(new, 1, Len(old)) = old
                /\ added.status = "pending"
                /\ added.id = String(IF old = <<>> THEN 1 ELSE Max(SubtaskNumbers(old)) + 1)
                /\ added.createdAt = now /\ added.updatedAt = now
                /\ after[p].updatedAt = now
                /\ SameExcept(after[p], before[p], {"subtasks", "updatedAt"})
                /\ \A k \in SubtaskKeys : Get(ret'.result[1], k) = Get(added, k)]_vars

\* the last task has two subtasks, the first task got its first subtask
\* after them, at a later time, and that subtask has the id "1"
C21_Witness ==
    /\ ret.op = "addSubtask" /\ ~ret.threw /\ ret.result # Null
    /\ ret.args[1] = <<"1">>
    /\ ret.result[1].id = <<"1">>
    /\ Len(getTasks) = SmallMaxId
    /\ Len(Stored(1).subtasks) = 1
    /\ Len(Stored(SmallMaxId).subtasks) = 2
    /\ Stored(SmallMaxId).subtasks[2].id = <<"2">>
    /\ Stored(SmallMaxId).subtasks[1].status = "pending"
    /\ Stored(1).updatedAt > Stored(1).createdAt
    /\ Stored(1).updatedAt > Stored(SmallMaxId).updatedAt

(***************************************************************************)
(* SpecLifecycle: every status is set on the last task and on the last     *)
(* subtask of the first task, whatever status they have.                   *)
(***************************************************************************)
LifecycleCreateInputs == {[title |-> "L"]}

LifecycleSubtaskInputs == {[title |-> "S"]}

LifecycleIds == {String(SmallMaxId), Dotted(1, MaxSubtasks)}

NextLifecycle ==
    \/ \E projectName \in WhenNew({Undefined}) : Initialize(projectName, now)
    \/ \E input \in Creatable(LifecycleCreateInputs, SmallMaxId) : CreateTask(input, now)
    \/ \E taskId \in Extensible(Ids(1), MaxSubtasks), input \in LifecycleSubtaskInputs :
           AddSubtask(taskId, input, now)
    \/ \E taskId \in LifecycleIds, status \in TaskStatuses : SetStatus(taskId, status, now)

SpecLifecycle == Init /\ [][NextLifecycle]_vars

\* the status of the task, or of the subtask, with this id among tasks
StatusOf(tasks, id) ==
    IF \E i \in 1..Len(tasks) : tasks[i].id = id
    THEN tasks[CHOOSE i \in 1..Len(tasks) : tasks[i].id = id].status
    ELSE LET At(i, j) == id = tasks[i].id \o <<".">> \o tasks[i].subtasks[j].id
             i == CHOOSE p \in 1..Len(tasks) : \E j \in 1..Len(tasks[p].subtasks) : At(p, j)
             j == CHOOSE q \in 1..Len(tasks[i].subtasks) : At(i, q)
         IN  tasks[i].subtasks[j].status

\* a setStatus call on the id of a stored task or subtask
StatusCall ==
    /\ isInitialized
    /\ ret' # ret \/ file' # file
    /\ ret'.op = "setStatus"
    /\ ResolvesToTask(ret'.args[1]) \/ ResolvesToSubtask(ret'.args[1])

\* a call that added a task, or a subtask to the first task
ItemCreated ==
    /\ isInitialized
    /\ file' # file
    /\ ret'.op \in {"createTask", "addSubtask"} /\ ~ret'.threw
    /\ ret'.result # Null

\* the id, dotted for a subtask, of the item that call returned
CreatedId ==
    IF ret'.op = "createTask" THEN ret'.result[1].id
    ELSE ret'.args[1] \o <<".">> \o ret'.result[1].id

\* C22: setStatus on a stored task or subtask succeeds with each of the five
\* statuses whatever the current status is, done included, and leaves the
\* item in the status given; a task or subtask is pending when it is created.
C22_Theorem ==
    /\ [][StatusCall =>
            /\ StatusOf(getTasks, ret'.args[1]) \in TaskStatuses
            /\ ~ret'.threw
            /\ ret'.result # Null
            /\ ret'.result[1].status = ret'.args[2]
            /\ StatusOf(file'[1].tasks, ret'.args[1]) = ret'.args[2]]_vars
    /\ [][ItemCreated =>
            /\ ret'.result[1].status = "pending"
            /\ StatusOf(file'[1].tasks, CreatedId) = "pending"]_vars

\* the last task is done and setStatus has just set the last subtask of the
\* first task to blocked
C22_Witness ==
    /\ ret.op = "setStatus" /\ ~ret.threw /\ ret.result # Null
    /\ ret.args = <<Dotted(1, MaxSubtasks), "blocked">>
    /\ Len(getTasks) = SmallMaxId
    /\ Stored(SmallMaxId).status = "done"
    /\ Stored(1).subtasks[MaxSubtasks].status = "blocked"
    /\ Stored(1).status = "pending"

(***************************************************************************)
(* SpecAwaiting: the first task of the document depends on AwaitedId,      *)
(* which is no task's id when it is created.  Tasks are then created, set  *)
(* done or pending, given subtasks, and the other tasks are updated and    *)
(* deleted: no call is given the first task's dependencies to edit.        *)
(***************************************************************************)
AwaitedId == String(SmallMaxId)

AwaitingInputs == {[title |-> "T", dependencies |-> <<AwaitedId>>]}

OtherInputs == {[title |-> "X"]}

AwaitingSubtaskInputs == {[title |-> "S"]}

OtherUpdateInputs == {[priority |-> "high"]}

\* the inputs, for a document without tasks
WhenEmpty(inputs) == {input \in inputs : isInitialized => getTasks = <<>>}

\* the inputs, for a document with tasks
WhenTasks(inputs) == {input \in inputs : isInitialized => getTasks # <<>>}

OtherIds == Ids(MaxId) \ {String(1)}

NextAwaiting ==
    \/ \E projectName \in WhenNew({Undefined}) : Initialize(projectName, now)
    \/ \E input \in WhenEmpty(AwaitingInputs) : CreateTask(input, now)
    \/ \E input \in WhenTasks(Creatable(OtherInputs, MaxId)) : CreateTask(input, now)
    \/ \E taskId \in Ids(MaxId), status \in {"done", "pending"} : SetStatus(taskId, status, now)
    \/ \E taskId \in Extensible(Ids(1), MaxSubtasks), input \in AwaitingSubtaskInputs :
           AddSubtask(taskId, input, now)
    \/ \E taskId \in {AwaitedId}, input \in OtherUpdateInputs :
           UpdateTask(taskId, input, now)
    \/ \E taskId \in OtherIds \ {AwaitedId} : DeleteTask(taskId, now)
    \/ GetNextTask

SpecAwaiting == Init /\ [][NextAwaiting]_vars

\* the first task is stored and depends on AwaitedId
Depending ==
    /\ isInitialized /\ getTasks # <<>>
    /\ AwaitedId \in Range(Stored(1).dependencies)

\* the first task depends on AwaitedId, which is no stored task's id
Awaiting == Depending /\ ~ResolvesToTask(AwaitedId)

\* getNextTask has returned the first task, which depends on AwaitedId
ReturnedDepending ==
    /\ Depending
    /\ NextTaskReturned /\ ret.result # Null
    /\ ret.result[1].id = Stored(1).id

FilterCreateInputs == {[title |-> "H", priority |-> "high"], [title |-> "L", priority |-> "low"]}

FilterStatuses == {"done", "blocked"}

OneStatus(status) == [isArray |-> FALSE, value |-> status]

SomeStatuses(statuses) == [isArray |-> TRUE, value |-> statuses]

Filters ==
    {NoFilter,
     [status |-> OneStatus("done")],
     [status |-> SomeStatuses(<<"pending", "blocked">>)],
     [status |-> SomeStatuses(<<>>)],
     [priority |-> "high"],
     [status |-> OneStatus("pending"), priority |-> "low"],
     [status |-> SomeStatuses(<<"blocked", "done">>), priority |-> "high"]}

NextFilter ==
    \/ \E projectName \in WhenNew({Undefined}) : Initialize(projectName, now)
    \/ \E input \in Creatable(FilterCreateInputs, SmallMaxId) : CreateTask(input, now)
    \/ \E taskId \in Ids(SmallMaxId), status \in FilterStatuses : SetStatus(taskId, status, now)
    \/ \E filter \in Filters : GetTasks(filter)

SpecFilter == Init /\ [][NextFilter]_vars

\* the stored task at i passes the filter
Passes(i, filter) ==
    /\ "status" \in DOMAIN filter =>
           IF filter.status.isArray
           THEN \E n \in 1..Len(filter.status.value) :
                    Stored(i).status = filter.status.value[n]
           ELSE Stored(i).status = filter.status.value
    /\ "priority" \in DOMAIN filter => Stored(i).priority = filter.priority

\* the positions of the stored tasks that pass the filter
Passing(filter) == {i \in 1..Len(getTasks) : Passes(i, filter)}

\* the n-th smallest of the positions
NthOf(positions, n) ==
    CHOOSE i \in positions : Cardinality({j \in positions : j < i}) = n - 1

\* C24: getTasks returns the stored tasks that pass the filter, in the order
\* they are stored: all of them without a filter; with a status or a list of
\* statuses those with one of these statuses; with a priority those of that
\* priority; with both those that pass both.
C24_Theorem ==
    LastReturned("getTasks") =>
        LET filter == ret.args[1]
            result == ret.result
        IN  /\ Len(result) = Cardinality(Passing(filter))
            /\ \A n \in 1..Len(result) : result[n] = Stored(NthOf(Passing(filter), n))

\* a low done task and then a high blocked task are stored, and
\* getTasks({status: [blocked, done], priority: high}) returned the second
C24_Witness ==
    /\ LastReturned("getTasks")
    /\ ret.args[1] = [status |-> SomeStatuses(<<"blocked", "done">>), priority |-> "high"]
    /\ Len(getTasks) >= 2
    /\ Stored(1).priority = "low" /\ Stored(1).status = "done"
    /\ Stored(2).priority = "high" /\ Stored(2).status = "blocked"
    /\ Len(ret.result) = 1
    /\ ret.result[1].id = <<"2">>

(***************************************************************************)
(* SpecResolve: getTask and setStatus are given the same ids: of a task,   *)
(* of a subtask, of no task, of no subtask, and with two dots; the         *)
(* document has up to SmallMaxId tasks, the first with up to MaxSubtasks   *)
(* subtasks.                                                               *)
(***************************************************************************)
ResolveCreateInputs == {[title |-> "R"]}

ResolveSubtaskInputs == {[title |-> "S"]}

\* N.M.K
Dotted3(n, m, k) == Dotted(n, m) \o <<".">> \o String(k)

ResolveIds ==
    {String(1), String(SmallMaxId), Dotted(1, 1), Dotted(1, MaxSubtasks),
     Dotted(SmallMaxId, 1), Dotted3(1, 1, MaxSubtasks), <<>>}

ResolveStatuses == {"done", "in-progress"}

NextResolve ==
    \/ \E projectName \in WhenNew({Undefined}) : Initialize(projectName, now)
    \/ \E input \in Creatable(ResolveCreateInputs, SmallMaxId) : CreateTask(input, now)
    \/ \E taskId \in Extensible(Ids(1), MaxSubtasks), input \in ResolveSubtaskInputs :
           AddSubtask(taskId, input, now)
    \/ \E taskId \in ResolveIds : GetTask(taskId)
    \/ \E taskId \in ResolveIds, status \in ResolveStatuses : SetStatus(taskId, status, now)

SpecResolve == Init /\ [][NextResolve]_vars

\* C25 as claimed: getTask splits its id at the first dot only.  An id without
\* a dot gives the task with that id; an id with a dot gives, in the task
\* whose id is the part before the first dot, the subtask whose id is all
\* that follows it; null when there is no such task or subtask.
C25_AsClaimed ==
    LastReturned("getTask") =>
        LET taskId == ret.args[1]
            first == BeforeDot(taskId)
            tasks == StoredAt(first)
            task == Stored(Min(tasks))
            subtasks == {j \in 1..Len(task.subtasks) : task.subtasks[j].id = AfterDot(taskId)}
        IN  ret.result =
                (IF tasks = {} THEN Null
                 ELSE IF first = taskId THEN <<task>>
                 ELSE IF subtasks = {} THEN Null
                 ELSE <<task.subtasks[Min(subtasks)]>>)

\* a setStatus call on an initialized project
StatusStep ==
    /\ isInitialized
    /\ ret' # ret \/ file' # file
    /\ ret'.op = "setStatus"

\* C26: setStatus(id, s) returns an item exactly when getTask(id) gives one in
\* the document as it is before the call; the getTask(id) that follows then
\* gives the item setStatus returned, and its status is s.
C26_Theorem ==
    [][StatusStep =>
        LET taskId == ret'.args[1]
            before == getTask(getTasks, taskId)
            after == getTask(file'[1].tasks, taskId)
        IN  /\ ~ret'.threw
            /\ (ret'.result # Null) <=> (before # Null)
            /\ ret'.result # Null =>
                   /\ after = ret'.result
                   /\ after[1].status = ret'.args[2]
                   /\ after[1].id = before[1].id]_vars

\* setStatus("1.1.N", "done") returned the first subtask of the first task,
\* which is done, as getTask("1.1.N") gives it; the task itself is not done
C26_Witness ==
    /\ ret.op = "setStatus" /\ ~ret.threw /\ ret.result # Null
    /\ ret.args = <<Dotted3(1, 1, MaxSubtasks), "done">>
    /\ getTask(getTasks, ret.args[1]) = ret.result
    /\ Stored(1).subtasks[1].status = "done"
    /\ Stored(1).status = "pending"

\* C27 (under SpecNext): getNextTask returns null exactly when no stored task
\* is a candidate; when some task is neither done, blocked nor deferred and
\* has all its dependencies done, it returns a task.
C27_Theorem ==
    NextTaskReturned => ((ret.result = Null) <=> (Candidates = {}))

\* getNextTask returned null on a document with two tasks that are not done:
\* the first is blocked and the second, pending, depends on it
C27_Witness ==
    /\ NextTaskReturned /\ ret.result = Null
    /\ Len(getTasks) = 2
    /\ Stored(1).status = "blocked"
    /\ Stored(2).status = "pending" /\ Stored(2).dependencies = << <<"1">> >>

(***************************************************************************)
(* SpecSaved: the five calls that save, each reading the clock a second    *)
(* time at the save; setStatus sets the status the task already has.       *)
(***************************************************************************)
SavedCreateInputs == {[title |-> "A"]}

SavedUpdateInputs == {[title |-> "A"]}

SavedSubtaskInputs == {[title |-> "S"]}

NextSaved ==
    \/ \E projectName \in WhenNew({Undefined}) : Initialize(projectName, now)
    \/ \E input \in Creatable(SavedCreateInputs, SmallMaxId), t \in Readings :
           CreateTask(input, t)
    \/ \E taskId \in Ids(1), input \in SavedUpdateInputs, t \in Readings :
           UpdateTask(taskId, input, t)
    \/ \E taskId \in {String(SmallMaxId)}, t \in Readings : DeleteTask(taskId, t)
    \/ \E taskId \in Ids(1), t \in Readings : SetStatus(taskId, "pending", t)
    \/ \E taskId \in Extensible(Ids(1), MaxSubtasks), input \in SavedSubtaskInputs,
          t \in Readings :
           AddSubtask(taskId, input, t)

SpecSaved == Init /\ [][NextSaved]_vars

\* a createTask, updateTask, deleteTask, setStatus or addSubtask that succeeded
Succeeded ==
    /\ isInitialized
    /\ ret' # ret \/ file' # file \/ now' # now
    /\ ret'.op \in {"createTask", "updateTask", "deleteTask", "setStatus", "addSubtask"}
    /\ ~ret'.threw
    /\ IF ret'.op = "deleteTask" THEN ret'.result = TRUE ELSE ret'.result # Null

\* C28: every createTask, updateTask, deleteTask, setStatus and addSubtask that
\* succeeds leaves in lastUpdated the time of its save, which is not earlier
\* than the lastUpdated it found, also when it changes no field of any task;
\* a call that does not succeed leaves lastUpdated as it was.
C28_Theorem ==
    [][/\ Succeeded =>
            /\ file'[1].lastUpdated = now'
            /\ file'[1].lastUpdated >= file[1].lastUpdated
            /\ now' >= now
       /\ (isInitialized /\ ~Succeeded) => file'[1].lastUpdated = file[1].lastUpdated]_vars

\* task "1" was created at time 0 and is as it was created; setStatus("1",
\* "pending") saved at time 1, and lastUpdated is 1
C28_Witness ==
    /\ ret.op = "setStatus" /\ ~ret.threw /\ ret.result # Null
    /\ ret.args = << <<"1">>, "pending" >>
    /\ Stored(1).status = "pending" /\ Stored(1).createdAt = 0
    /\ Stored(1).updatedAt = 0 /\ Stored(1).subtasks = <<>>
    /\ load.lastUpdated = 1
    /\ now = 1

(***************************************************************************)
(* SpecTools: the tools rtaskmaster_init, rtaskmaster_create_task and      *)
(* rtaskmaster_delete_task, called one at a time in any order.             *)
(***************************************************************************)
ToolProjectNames == {Undefined, "named"}

ToolCreateArgs == {[title |-> "A"], [title |-> "B", dependencies |-> << <<"1">> >>]}

NextTools ==
    \/ \E projectName \in ToolProjectNames : InitTool(projectName, now)
    \/ \E args \in Creatable(ToolCreateArgs, MaxId) : CreateTaskTool(args, now)
    \/ \E taskId \in Ids(MaxId) : DeleteTaskTool(taskId, now)

SpecTools == Init /\ [][NextTools]_vars

\* a call of the rtaskmaster_init tool
InitToolStep == ret'.op = "rtaskmaster_init" /\ (ret' # ret \/ file' # file)

\* C29: rtaskmaster_init on a project that has a document returns the text
\* "already initialized" and leaves the document as it is, tasks included; on
\* a project without a document it writes a document without tasks.
C29_Theorem ==
    [][InitToolStep =>
        /\ ~ret'.threw
        /\ IF isInitialized
           THEN /\ ret'.result = AlreadyInitialized
                /\ file' = file
           ELSE /\ ret'.result = InitializedSuccessfully
                /\ file'[1].tasks = <<>>]_vars

\* two tasks were created, rtaskmaster_init has been called again, with a
\* project name, and they are stored
C29_Witness ==
    /\ ret.op = "rtaskmaster_init" /\ ret.result = AlreadyInitialized
    /\ ret.args = <<"named">>
    /\ Len(getTasks) = 2
    /\ Stored(1).title = "A" /\ Stored(2).title = "B"
    /\ load.projectName = "project"

(***************************************************************************)
(* SpecLoop: the work loop of an agent, `t := getNextTask(); setStatus(    *)
(* t.id, "done")` until getNextTask returns null, with no other call.  It  *)
(* starts on a project without a document, or on a document of up to       *)
(* SmallMaxId tasks that are pending, in-progress or done, whose           *)
(* dependencies are ids of stored tasks and form no cycle.  The loop is a  *)
(* sequential program: while it has a step to take, it takes it.           *)
(***************************************************************************)
LoopStatuses == {"pending", "in-progress", "done"}

LoopPriorities == {"medium", "high"}

\* for each of n tasks the numbers of the tasks it depends on, without a cycle:
\* no dependency, each task on the one before it, each task on the one after
\* it, and the first task on all the others
Acyclic(n) ==
    {[i \in 1..n |-> {}],
     [i \in 1..n |-> {i - 1} \cap (1..n)],
     [i \in 1..n |-> {i + 1} \cap (1..n)],
     [i \in 1..n |-> IF i = 1 THEN 2..n ELSE {}]}

\* the ids of the tasks with these numbers, in ascending order
IdsOf(numbers) == [k \in 1..Cardinality(numbers) |-> String(NthOf(numbers, k))]

LoopTask(i, numbers, status, priority) ==
    [id |-> String(i), title |-> "W", description |-> "", status |-> status,
     priority |-> priority, dependencies |-> IdsOf(numbers),
     subtasks |-> <<>>, createdAt |-> 0, updatedAt |-> 0]

\* no document, and the documents the loop starts on; the last task has any
\* of LoopPriorities, the others are medium
LoopFiles ==
    {<<>>} \cup
    UNION {{<< [version |-> VERSION, projectName |-> "project",
                tasks |-> [i \in 1..n |->
                              LoopTask(i, deps[i], statuses[i],
                                       IF i = n THEN last ELSE "medium")],
                lastUpdated |-> 0] >> :
               deps \in Acyclic(n), statuses \in [1..n -> LoopStatuses],
               last \in LoopPriorities} :
           n \in 0..SmallMaxId}

InitLoop ==
    /\ file \in LoopFiles
    /\ now = 0
    /\ ret = Returned("new", <<>>, Null)
    /\ lastCreated = IF file = <<>> THEN 0 ELSE Len(file[1].tasks)
    /\ caller = 1
    /\ managers = [m \in Managers |-> Idle(Returned("new", <<>>, Null))]

\* the loop is at `t := getNextTask()`
AtGetNextTask == ret.op \in {"new", "setStatus"}

\* the id the loop passes to setStatus: that of the task getNextTask returned
ReturnedIds ==
    IF ret.op = "getNextTask" /\ ~ret.threw /\ ret.result # Null
    THEN {ret.result[1].id}
    ELSE {}

NextLoop ==
    \/ AtGetNextTask /\ GetNextTask
    \/ \E taskId \in ReturnedIds : SetStatus(taskId, "done", now)

SpecLoop == InitLoop /\ [][NextLoop]_vars /\ WF_vars(NextLoop)

AllDone == \A i \in 1..Len(getTasks) : Stored(i).status = "done"

\* the loop has ended: getNextTask has returned null, or has thrown because
\* the project has no document
LoopEnded == ret.op = "getNextTask" /\ (ret.threw \/ ret.result = Null)

\* the loop sets a task done
Completing == isInitialized /\ ret'.op = "setStatus" /\ ret' # ret

\* C30: on a document whose dependencies are ids of stored tasks and form no
\* cycle, and where no task is blocked or deferred, the work loop ends, and
\* when it has ended every task is done; each task it sets done had all its
\* dependencies done before; getNextTask returns null only when every task is
\* done.
C30_Theorem ==
    /\ <>LoopEnded
    /\ [](LoopEnded /\ isInitialized => AllDone)
    /\ [][Completing =>
            /\ ~ret'.threw /\ ret'.result # Null
            /\ \A i \in StoredAt(ret'.args[1]) :
                   /\ Stored(i).status # "done"
                   /\ DependenciesDone(i)
                   /\ file'[1].tasks[i].status = "done"]_vars

\* the loop has set task "2" done before task "1", which depends on it and is
\* still pending
C30_Witness ==
    /\ ret.op = "setStatus" /\ ~ret.threw /\ ret.result # Null
    /\ ret.args = << <<"2">>, "done" >>
    /\ Len(getTasks) = SmallMaxId
    /\ Stored(1).dependencies = << <<"2">> >> /\ Stored(1).status = "pending"
    /\ Stored(2).status = "done"

(***************************************************************************)
(* SpecUnblock: tasks that depend on task "1", or on tasks "1" and "2",    *)
(* are created; task "1" can be set done, the last task blocked, any task  *)
(* deleted, and getNextTask asked.                                         *)
(***************************************************************************)
UnblockInputs ==
    {[title |-> "A"],
     [title |-> "B", dependencies |-> << String(1) >>],
     [title |-> "C", dependencies |-> << String(1), String(SmallMaxId) >>]}

NextUnblock ==
    \/ \E projectName \in WhenNew({Undefined}) : Initialize(projectName, now)
    \/ \E input \in Creatable(UnblockInputs, MaxId) : CreateTask(input, now)
    \/ SetStatus(String(1), "done", now)
    \/ SetStatus(String(MaxId), "blocked", now)
    \/ \E taskId \in Ids(MaxId) : DeleteTask(taskId, now)
    \/ GetNextTask

SpecUnblock == Init /\ [][NextUnblock]_vars

\* deleteTask has removed a task
Deleted ==
    /\ isInitialized /\ file' # file
    /\ ret'.op = "deleteTask" /\ ~ret'.threw /\ ret'.result = TRUE

\* task i is not done, blocked or deferred, and each of its dependencies is d
\* or the id of a stored done task
OnlyAwaits(i, d) ==
    /\ Stored(i).status \notin {"done", "blocked", "deferred"}
    /\ \A k \in 1..Len(Stored(i).dependencies) :
           Stored(i).dependencies[k] = d \/ IsDoneId(Stored(i).dependencies[k])

\* C31: after deleteTask(d) has removed a task d that was not done, every
\* remaining task that is not done, blocked or deferred and whose dependencies
\* other than d were all done is in the candidate pool of getNextTask.
C31_Theorem ==
    [][Deleted =>
         LET d == ret'.args[1]
         IN  (\A j \in StoredAt(d) : Stored(j).status # "done") =>
                 \A i \in 1..Len(getTasks) :
                     (Stored(i).id # d /\ OnlyAwaits(i, d)) =>
                         \E n \in 1..Len(getTasks') :
                             /\ getTasks'[n].id = Stored(i).id
                             /\ Candidate(n)']_vars

\* task "2", never done, has been deleted; task "3" was created depending on
\* "1" and "2", task "1" is done, and task "3" is a candidate
C31_Witness ==
    /\ ret.op = "deleteTask" /\ ~ret.threw /\ ret.result = TRUE
    /\ ret.args = << String(SmallMaxId) >>
    /\ \E i \in Candidates :
           /\ Stored(i).title = "C"
           /\ Stored(i).dependencies = << String(1) >>
           /\ IsDoneId(String(1))

(***************************************************************************)
(* SpecReads: the five reads between mutations, with a clock that ticks    *)
(* between the calls.                                                      *)
(***************************************************************************)
ReadsCreateInputs ==
    {[title |-> "A", priority |-> "low"],
     [title |-> "B", priority |-> "high", dependencies |-> << String(1) >>]}

ReadsIds == {String(1), Dotted(1, 1)}

NextReads ==
    \/ \E projectName \in WhenNew({Undefined}) : Initialize(projectName, now)
    \/ \E input \in Creatable(ReadsCreateInputs, SmallMaxId) : CreateTask(input, now)
    \/ \E taskId \in Extensible(Ids(1), MaxSubtasks), input \in SubtaskInputs :
          AddSubtask(taskId, input, now)
    \/ SetStatus(Dotted(1, 1), "done", now)
    \/ GetTasks(NoFilter)
    \/ \E taskId \in ReadsIds : GetTask(taskId)
    \/ \E taskId \in ReadsIds : GetParentTask(taskId)
    \/ GetNextTask
    \/ GetStats
    \/ Tick

SpecReads == Init /\ [][NextReads]_vars

ReadOperations == {"getTasks", "getTask", "getParentTask", "getNextTask", "getStats"}


\* C32: a call of getTasks, getTask, getParentTask, getNextTask or getStats
\* leaves the document as it was (tasks, their order, every timestamp and
\* lastUpdated); and a read that follows the same read with the same arguments,
\* with no mutation in between, returns what the first one returned.
C32_Theorem ==
    /\ [][ret'.op \in ReadOperations /\ ret' # ret => file' = file]_vars
    /\ [][(ret'.op \in ReadOperations /\ ret.op = ret'.op /\ ret.args = ret'.args
             /\ file' = file) => ret' = ret]_vars

\* getNextTask has returned a task of a document of SmallMaxId tasks that was
\* last written before the clock ticked
C32_Witness ==
    /\ LastReturned("getNextTask") /\ ret.result # Null
    /\ Len(getTasks) = SmallMaxId
    /\ load.lastUpdated < now

(***************************************************************************)
(* SpecCounts: getStats after calls that give the tasks each of the five   *)
(* statuses, through setStatus and through updateTask, add subtasks to     *)
(* task "1", set a subtask done and delete a task.                         *)
(***************************************************************************)
CountsCreateInputs == {[title |-> "A"]}

CountsUpdateInputs == {[status |-> "blocked"]}

NextCounts ==
    \/ \E projectName \in WhenNew({Undefined}) : Initialize(projectName, now)
    \/ \E input \in Creatable(CountsCreateInputs, SmallMaxId) : CreateTask(input, now)
    \/ \E taskId \in Ids(SmallMaxId), status \in TaskStatuses :
          SetStatus(taskId, status, now)
    \/ SetStatus(Dotted(1, 1), "done", now)
    \/ \E input \in CountsUpdateInputs : UpdateTask(String(SmallMaxId), input, now)
    \/ \E taskId \in Extensible(Ids(1), MaxSubtasks), input \in SubtaskInputs :
          AddSubtask(taskId, input, now)
    \/ DeleteTask(String(1), now)
    \/ GetStats

SpecCounts == Init /\ [][NextCounts]_vars

\* C33: what getStats returned satisfies pending + inProgress + done + blocked
\* + deferred = total = the number of stored tasks, each count is the number
\* of stored tasks (not subtasks) with that status, and completionPercentage
\* is between 0 and 100.
C33_Theorem ==
    LastReturned("getStats") =>
        LET stats == ret.result
        IN  /\ stats.pending + stats.inProgress + stats.done + stats.blocked
                 + stats.deferred = stats.total
            /\ stats.total = Len(getTasks)
            /\ stats.inProgress = StoredWith("in-progress")
            /\ stats.blocked = StoredWith("blocked")
            /\ stats.deferred = StoredWith("deferred")
            /\ stats.done = StoredWith("done")
            /\ 0 <= stats.completionPercentage
            /\ stats.completionPercentage <= 100

\* getStats on SmallMaxId tasks, the last one blocked, none done, while a
\* subtask of task "1" is done
C33_Witness ==
    /\ LastReturned("getStats")
    /\ ret.result.total = SmallMaxId /\ ret.result.done = 0
    /\ ret.result.blocked = 1
    /\ Stored(SmallMaxId).status = "blocked"
    /\ Stored(1).subtasks # <<>>
    /\ Stored(1).subtasks[1].status = "done"

(***************************************************************************)
(* SpecTimes: the calls that stamp, with arguments of the declared input   *)
(* types and a clock that ticks between the calls and between a call's     *)
(* reading of the clock and its write.                                     *)
(***************************************************************************)
TimesCreateInputs == {[title |-> "A"]}

TimesUpdateInputs == {[status |-> "in-progress"]}

NextTimes ==
    \/ \E projectName \in WhenNew({Undefined}), t \in Readings : Initialize(projectName, t)
    \/ \E input \in Creatable(TimesCreateInputs, SmallMaxId), t \in Readings :
          CreateTask(input, t)
    \/ \E input \in TimesUpdateInputs, t \in Readings : UpdateTask(String(1), input, t)
    \/ \E t \in Readings : SetStatus(Dotted(1, 1), "done", t)
    \/ \E t \in Readings : SetStatus(String(SmallMaxId), "done", t)
    \/ \E taskId \in Extensible(Ids(1), MaxSubtasks), input \in SubtaskInputs, t \in Readings :
          AddSubtask(taskId, input, t)
    \/ Tick

SpecTimes == Init /\ [][NextTimes]_vars

\* the timestamps of the stored tasks and subtasks are in order
TaskStamped(task) ==
    /\ task.createdAt <= task.updatedAt
    /\ task.updatedAt <= load.lastUpdated
    /\ \A j \in 1..Len(task.subtasks) :
           /\ task.subtasks[j].createdAt <= task.subtasks[j].updatedAt
           /\ task.subtasks[j].updatedAt <= task.updatedAt

\* C34: with a clock that never goes back and inputs of the declared types,
\* every task of the document has createdAt <= updatedAt <= lastUpdated, and
\* every subtask has createdAt <= updatedAt <= its parent task's updatedAt.
C34_Theorem ==
    isInitialized => \A i \in 1..Len(getTasks) : TaskStamped(Stored(i))

\* task "1" was created before the clock ticked; after the tick its subtask
\* was set done, which stamped the subtask and the task
C34_Witness ==
    /\ isInitialized /\ Len(getTasks) >= 1
    /\ Stored(1).createdAt < Stored(1).updatedAt
    /\ Stored(1).subtasks # <<>>
    /\ Stored(1).subtasks[1].status = "done"
    /\ Stored(1).subtasks[1].createdAt < Stored(1).subtasks[1].updatedAt
    /\ Stored(1).subtasks[1].updatedAt = Stored(1).updatedAt
    /\ Stored(1).updatedAt = load.lastUpdated

(***************************************************************************)
(* SpecInterleaved: two TaskManager instances, each in its own process, on *)
(* the same tasks.json: both run createTask, one also deleteTask and       *)
(* setStatus, the other updateTask and addSubtask.  As in SpecConcurrent a *)
(* call is a load step and a write step, and the steps of the instances    *)
(* interleave in any order.                                                *)
(***************************************************************************)
InterleavedUpdateInputs == {[title |-> "T"]}

\* the instance that deletes and sets the status, and the one that updates and
\* adds subtasks; both create
Deleter == 1

Updater == MaxManagers

NextInterleaved ==
    \/ \E projectName \in WhenNew({Undefined}) : Initialize(projectName, now)
    \/ \E m \in {Deleter, Updater} :
          \E input \in Creatable(ConcurrentCreateInputs(m), SmallMaxId) :
              Load(m, "createTask", <<input>>)
    \/ Load(Deleter, "deleteTask", <<String(1)>>)
    \/ Load(Deleter, "setStatus", <<String(1), "done">>)
    \/ \E input \in InterleavedUpdateInputs :
          Load(Updater, "updateTask", <<String(1), input>>)
    \/ \E taskId \in Extensible(Ids(1), MaxSubtasks), input \in SubtaskInputs :
          Load(Updater, "addSubtask", <<taskId, input>>)
    \/ \E m \in {Deleter, Updater} : Save(m)

SpecInterleaved == Init /\ [][NextInterleaved]_vars

\* C35: however the load and write steps of createTask, deleteTask, setStatus,
\* updateTask and addSubtask calls of several processes interleave, no two
\* tasks of the document have the same id.
C35_Theorem ==
    isInitialized =>
        \A i, j \in 1..Len(getTasks) : Stored(i).id = Stored(j).id => i = j

\* both instances loaded the document with task "1" alone, both computed a
\* task with the next id, and both wrote: the document has one task with that
\* id, the one written last
C35_Witness ==
    /\ isInitialized
    /\ \A m \in {Deleter, Updater} :
          /\ managers[m].pc = "idle"
          /\ managers[m].done.op = "createTask" /\ ~managers[m].done.threw
          /\ managers[m].done.result[1].id = String(SmallMaxId)
    /\ Len(getTasks) = SmallMaxId
    /\ Stored(1).id = String(1)
    /\ Stored(SmallMaxId).id = String(SmallMaxId)

====
